---- MODULE Spec2Model ----
(***************************************************************************)
(* Model of the champ alignment pipeline (src/champ/align.py).             *)
(*                                                                         *)
(*  - Spec / FairSpec : one run of align_fiducial: the producer loop, the  *)
(*    W alignment threads (align_fiducial_thread), the writer thread       *)
(*    (write_thread) and the two Queue.Queue objects between them.         *)
(*  - WriteSpec : sequences of write_output calls against a results        *)
(*    directory that may already hold files of earlier runs.               *)
(*                                                                         *)
(* Queue.Queue is the Python 2 standard library class: put blocks while a  *)
(* bounded queue is full and increments unfinished_tasks, get_nowait       *)
(* raises Queue.Empty on an empty queue, get() blocks until an item is     *)
(* there, task_done decrements unfinished_tasks and join blocks until      *)
(* unfinished_tasks is 0.                                                  *)
(***************************************************************************)
EXTENDS Integers, Sequences, FiniteSets, TLC

\* ---------------------------------------------------------------- bounds
\* number of images that iterate_all_images yields in one run
NumTasks == 2
\* num_processes = max(cpu_count() - 3, 1) of the machines looked at: one
\* alignment thread (up to four cores) or two (five cores)
PoolSizes == {1, 2}
\* largest alignment score that occurs
MaxScore == 2

\* min_hits: the fewest hits precision_align_only accepts
MinHits == 3
\* the numbers of hits a precision alignment may find: one too few, just
\* enough, more than enough
HitCounts == (MinHits - 1)..(MinHits + 1)

\* number of acquisitions (HDF5 files) handed to find_bounds
NumAcquisitions == 3
\* number of image columns of the grid
NumColumns == 2
\* the image grid get_expected_tile_map is called for has columns 0..MaxColumn
MaxColumn == 9
\* the first tile number of the second surface of a MiSeq flow cell
FirstTile == 2101
\* constants.MISEQ_TILE_COUNT: the tiles of one surface of a MiSeq v3 flow cell
MISEQ_TILE_COUNT == 19
\* the number of lines of a file of read names
MaxLines == 2
\* line.strip().rsplit(':', 4): the most splits made
MaxSplit == 4
\* next_power_of_2 is called with numbers up to MaxNumber
MaxNumber == 64
\* an image has up to MaxSide rows and columns, a padding up to MaxPadding
MaxSide == 3
MaxPadding == 3
\* the side of a field of view, in pixels
FieldSide == 512
\* the number of files of a TIFF stack
MaxFiles == 2

\* multiprocessing.cpu_count() returns 1..MaxCores
MaxCores == 16

\* the controller is run up to MaxRuns times on one image directory
MaxRuns == 2

\* an image has up to MaxSubdivisions fields of view along each side
MaxSubdivisions == 2
\* the axis positions of a stack are 0..MaxAxisPosition, MaxPositions of them at most
MaxAxisPosition == 2
MaxPositions == 2

Tasks == 1..NumTasks
Workers == UNION {1..n : n \in PoolSizes}
\* the score a stats file on disk may hold (a file put there by hand may say 0)
StoredScores == 0..MaxScore
\* AlignmentStats.score of an alignment that precision_align_only accepted:
\* |exclusive| + w * |good-mutual| over at least min_hits >= 3 hits, so positive
Scores == 1..MaxScore
\* two distinguishable alignments (tile, offset, rotation, scale) of one image
Poses == {"poseA", "poseB"}

VARIABLES
    \* align_fiducial (the producer)
    producer_pc,            \* "put" | "join_q" | "set_processing_done" | "join_result_queue" | "returned"
    next_task,              \* the next task the generator `data` yields
    q,                      \* Queue.Queue(maxsize=num_processes): the waiting tasks
    q_unfinished,           \* q.unfinished_tasks
    done_event,
    processing_done_event,
    \* align_fiducial_thread, one per worker
    thread_pc,              \* "not_started" | "get_nowait" | "empty" | "process" | "precision" | "task_done" | "quit" | "died"
    thread_task,            \* the task a thread holds (0: none)
    thread_fia,             \* the thread's local fia: what the alignment of its task found
    \* write_thread
    result_queue,           \* Queue.Queue(): (image.index, base_name, fia) triples
    result_unfinished,      \* result_queue.unfinished_tasks
    writer_pc,              \* "get" | "write_output" | "write_files" | "task_done"
    writer_item,            \* the result the writer holds
    writer_existing_score,  \* existing_score of the write_output call in progress (0: none)
    \* the results directory: per image, its _stats.txt and _all_read_rcs.txt
    disk,
    \* history: what happened to each task, and the last write_output call
    outcome,                \* per task: "pending" | "skipped" | "aligned" | "raised"
    steps,                  \* per task: the alignment steps started and finished for its image, in order
    task_done_calls,        \* per task: number of queue.task_done() calls made for it
    write_calls,            \* per task: number of write_output calls made for its result
    last_write,             \* the last write_output call made outside the writer thread
    \* find_bounds and its pool of check_column_for_alignment tasks
    side,                   \* "left": columns ascending | "right": columns descending
    find_pc,                \* "not_called" | "for_column" | "map_async" | "returned" | "failed"
    column_pos,             \* position of the for loop in `columns`
    end_tiles,              \* Manager().dict(): per acquisition, its bound or none
    checker_pc,             \* per acquisition: "idle" | "for_row" | "hit" | "no_hit" | "missing_image"
    checker_row,            \* per acquisition: position of the for loop in (3, 4, 2)
    checker_fia,            \* per acquisition: the local fia of its task
    \* history of find_bounds
    rows_tried,             \* per acquisition: the rows grid.get was called for at this column
    probed,                 \* the columns map_async was started for, in order
    hit_columns,            \* the columns at which rough alignment left hitting tiles
    \* the tile data and the aligners that hold it
    tile_store,             \* per object: the tasks whose alignment wrote to it
    \* one call of a function, looked at on its own
    call,                   \* the function and its arguments
    result,                 \* what it returned, once it has
    \* the controller and the image directory it works on
    metadata_file,          \* champ.yaml: the metadata as they were last saved
    h5_files,               \* the .h5 files of the image directory
    controller              \* main: where it is, its local names, what it has called so far

vars == <<producer_pc, next_task, q, q_unfinished, done_event, processing_done_event,
          thread_pc, thread_task, thread_fia, result_queue, result_unfinished, writer_pc,
          writer_item, writer_existing_score, disk, outcome, steps, task_done_calls,
          write_calls, last_write, side, find_pc, column_pos, end_tiles, checker_pc,
          checker_row, checker_fia, rows_tried, probed, hit_columns, tile_store, call, result,
          metadata_file, h5_files, controller>>

pipeline_vars == <<producer_pc, next_task, q, q_unfinished, done_event, processing_done_event,
                   thread_pc, thread_task, thread_fia, result_queue, result_unfinished,
                   writer_pc, writer_item, writer_existing_score, outcome, steps,
                   task_done_calls, write_calls>>

find_bounds_vars == <<side, find_pc, column_pos, end_tiles, checker_pc, checker_row,
                      checker_fia, rows_tried, probed, hit_columns>>

\* what the operations outside a run of align_fiducial work on
call_vars == <<call, result>>

controller_vars == <<metadata_file, h5_files, controller>>

\* num_processes: the number of alignment threads that were started, which is
\* the input queue's maxsize
NumWorkers == Cardinality({w \in Workers : thread_pc[w] # "not_started"})

other_vars == <<find_bounds_vars, call_vars, tile_store, controller_vars>>

\* ------------------------------------------------------- files on disk
NoStatsFile == [kind |-> "missing", score |-> 0, pose |-> "none"]
CorruptStatsFile == [kind |-> "corrupt", score |-> 0, pose |-> "none"]
StatsFiles == {NoStatsFile, CorruptStatsFile}
                \cup [kind : {"stats"}, score : StoredScores, pose : Poses]
NoRcsFile == [kind |-> "missing", pose |-> "none"]
RcsFiles == {NoRcsFile} \cup [kind : {"rcs"}, pose : Poses]

\* fastq_image_aligner.alignment_stats of a precision-aligned image
AlignmentStats == [score : Scores, pose : Poses]

\* new_stats.serialized: the text written to <image_index>_stats.txt
serialized(new_stats) ==
    [kind |-> "stats", score |-> new_stats.score, pose |-> new_stats.pose]

\* AlignmentStats().from_file(f): the parsed record, or a parse error
from_file(f) ==
    IF f.kind = "stats"
    THEN [ok |-> TRUE, score |-> f.score, pose |-> f.pose]
    ELSE [ok |-> FALSE, score |-> 0, pose |-> "none"]

\* all_fastq_image_aligner.read_names_rcs: every read under the aligned pose
read_names_rcs(new_stats) == [kind |-> "rcs", pose |-> new_stats.pose]

\* load_existing_score looking at a path where no file is: always 0
load_existing_score_wrong_path(stats_file) == 0

\* load_existing_score answering a parse error with 1 instead of 0
load_existing_score_error_one(stats_file) ==
    IF stats_file.kind # "missing"
    THEN IF from_file(stats_file).ok THEN from_file(stats_file).score ELSE 1
    ELSE 0

load_existing_score(stats_file) ==
    IF stats_file.kind # "missing"                  \* os.path.isfile
    THEN IF from_file(stats_file).ok
         THEN from_file(stats_file).score
         ELSE 0                                     \* except (TypeError, ValueError)
    ELSE 0


\* write_output skipping only when the stored score is above the new one
write_output_files_compare(files, new_stats) ==
    IF load_existing_score(files.stats) > new_stats.score
    THEN files
    ELSE [stats |-> serialized(new_stats), rcs |-> read_names_rcs(new_stats)]

\* write_output skipping only when the stored score is at least 2
write_output_files_above_one(files, new_stats) ==
    IF load_existing_score(files.stats) > 1
    THEN files
    ELSE [stats |-> serialized(new_stats), rcs |-> read_names_rcs(new_stats)]

\* the two files write_output leaves for one image, given the two it found
write_output_files(files, new_stats) ==
    IF load_existing_score(files.stats) > 0
    THEN files                                      \* return False: nothing is opened
    ELSE [stats |-> serialized(new_stats), rcs |-> read_names_rcs(new_stats)]

\* what write_output leaves once it has loaded existing_score
write_output_store(existing_score, files, new_stats) ==
    IF existing_score > 0
    THEN files
    ELSE [stats |-> serialized(new_stats), rcs |-> read_names_rcs(new_stats)]

write_output_returns(files, new_stats) ==
    ~(load_existing_score(files.stats) > 0)

\* one call write_output(image_index, base_name, fastq_image_aligner, ...)
write_output(image_index, new_stats) ==
    disk' = [disk EXCEPT ![image_index] = write_output_files(@, new_stats)]

\* a results directory without files for an image
FreshFiles == [stats |-> NoStatsFile, rcs |-> NoRcsFile]
\* anything a results directory may hold for one image
AnyFiles == [stats : StatsFiles, rcs : RcsFiles]

\* the objects that hold tile data: fastq_tiles as align_fiducial receives it,
\* the copy each thread is started with, the tiles of the aligner of each task,
\* the aligner run_data_channel builds, the copy process_data_image makes of it
FastqTiles == <<"fastq_tiles", 0>>
LocalFastqTiles(w) == <<"local_fastq_tiles", w>>
TaskTiles(t) == <<"fia", t>>
SharedAligner == <<"fastq_image_aligner", 0>>
LocalFia(image_index) == <<"local_fia", image_index>>

TileObjects ==
    {FastqTiles, SharedAligner}
        \cup {LocalFastqTiles(w) : w \in Workers}
        \cup {TaskTiles(t) : t \in Tasks}
        \cup {LocalFia(t) : t \in Tasks}

\* a variant that hands back the object it was given
deepcopy_same_object(new, object) == object

\* deepcopy(object): the object returned is a new one
deepcopy(new, object) == new

\* the store after new = deepcopy(object): the new object holds what the old holds
copied(store, new, object) == [store EXCEPT ![deepcopy(new, object)] = store[object]]

\* the store after the alignment of a task has written to the tiles of its aligner
aligned(store, object, task) == [store EXCEPT ![object] = @ \cup {task}]

\* the store after del of the only name of a copy: the copy is gone
deleted(store, copy) == [store EXCEPT ![copy] = {}]

\* no alignment has written to any object
TilesAsLoaded == tile_store = [object \in TileObjects |-> {}]

\* fia.set_fastq_tiles(deepcopy(local_fastq_tiles)) in thread w for task t,
\* local_fastq_tiles being the deepcopy(fastq_tiles) the thread was started with
fia_tiles(w, t) == deepcopy(TaskTiles(t), deepcopy(LocalFastqTiles(w), FastqTiles))

\* the store once the aligner of task t has its tiles
with_fia_tiles(store, w, t) ==
    copied(store, TaskTiles(t), deepcopy(LocalFastqTiles(w), FastqTiles))

\* the state of a FastqImageAligner that the callers read: whether the catalog
\* of its image was read, whether rough alignment left hitting tiles, how
\* precision_align_only ended and how many hits it found
NoFia == [sexcat |-> FALSE, hitting_tiles |-> FALSE, precision |-> "not_run", hits |-> 0]

\* process_alignment_image: without the catalog file the aligner is returned as
\* it came; with it, rough_align leaves hitting tiles or none
process_alignment_image(fia, sexcat_exists, tiles_hit) ==
    IF ~sexcat_exists
    THEN fia
    ELSE [fia EXCEPT !.sexcat = TRUE, !.hitting_tiles = tiles_hit]

\* fia.precision_align_only(min_hits): finds the hits and raises ValueError
\* when they are fewer than min_hits
precision_align_only(fia, min_hits, hits) ==
    [fia EXCEPT !.hits = hits,
                !.precision = IF hits < min_hits THEN "ValueError" ELSE "returned"]

\* history of the last call of a function that may call write_output: who made
\* it, for which image, how its aligner ended, what exception left it, and,
\* when write_output was called, with what, what it found and returned
NoWrite == [called |-> FALSE, caller |-> "none", image_index |-> 0,
            new_stats |-> [score |-> 0, pose |-> "none"],
            before |-> FreshFiles, returned |-> FALSE, fia |-> NoFia, raised |-> "none"]

record_write(caller, image_index, new_stats, fia) ==
    last_write' = [called |-> TRUE, caller |-> caller, image_index |-> image_index,
                   new_stats |-> new_stats, before |-> disk[image_index],
                   returned |-> write_output_returns(disk[image_index], new_stats),
                   fia |-> fia, raised |-> "none"]

\* the call ended without reaching write_output
record_no_write(caller, image_index, fia, raised) ==
    last_write' = [NoWrite EXCEPT !.caller = caller, !.image_index = image_index,
                                  !.fia = fia, !.raised = raised]

\* ------------------------------------------------- align_fiducial (producer)
\* a variant whose input queue has no maxsize
ProducerPutUnbounded ==
    /\ producer_pc = "put"
    /\ next_task <= NumTasks
    /\ q' = Append(q, next_task)
    /\ q_unfinished' = q_unfinished + 1
    /\ next_task' = next_task + 1
    /\ UNCHANGED <<producer_pc, done_event, processing_done_event, thread_pc, thread_task,
                   thread_fia, result_queue, result_unfinished, writer_pc, writer_item, writer_existing_score, disk,
                   outcome, steps, task_done_calls, write_calls, last_write, other_vars>>

\* for ... in data: q.put((row, column, h5_filename, possible_tile_keys))
ProducerPut ==
    /\ producer_pc = "put"
    /\ next_task <= NumTasks
    /\ Len(q) < NumWorkers                          \* put blocks while the queue is full
    /\ q' = Append(q, next_task)
    /\ q_unfinished' = q_unfinished + 1
    /\ next_task' = next_task + 1
    /\ UNCHANGED <<producer_pc, done_event, processing_done_event, thread_pc, thread_task, thread_fia,
                   result_queue, result_unfinished, writer_pc, writer_item, writer_existing_score, disk,
                   outcome, steps, task_done_calls, write_calls, last_write, other_vars>>

\* the generator is exhausted: done_event.set()
ProducerSetDone ==
    /\ producer_pc = "put"
    /\ next_task > NumTasks
    /\ done_event' = TRUE
    /\ producer_pc' = "join_q"
    /\ UNCHANGED <<next_task, q, q_unfinished, processing_done_event, thread_pc, thread_task, thread_fia,
                   result_queue, result_unfinished, writer_pc, writer_item, writer_existing_score, disk,
                   outcome, steps, task_done_calls, write_calls, last_write, other_vars>>

\* q.join() returns
ProducerJoinQueue ==
    /\ producer_pc = "join_q"
    /\ q_unfinished = 0
    /\ producer_pc' = "set_processing_done"
    /\ UNCHANGED <<next_task, q, q_unfinished, done_event, processing_done_event, thread_pc,
                   thread_task, thread_fia, result_queue, result_unfinished, writer_pc, writer_item, writer_existing_score,
                   disk, outcome, steps, task_done_calls, write_calls, last_write, other_vars>>

\* processing_done_event.set()
ProducerSetProcessingDone ==
    /\ producer_pc = "set_processing_done"
    /\ processing_done_event' = TRUE
    /\ producer_pc' = "join_result_queue"
    /\ UNCHANGED <<next_task, q, q_unfinished, done_event, thread_pc, thread_task, thread_fia,
                   result_queue, result_unfinished, writer_pc, writer_item, writer_existing_score, disk,
                   outcome, steps, task_done_calls, write_calls, last_write, other_vars>>

\* align_fiducial returning without waiting for result_queue.join()
ProducerReturnsWithoutJoin ==
    /\ producer_pc = "join_result_queue"
    /\ producer_pc' = "returned"
    /\ UNCHANGED <<next_task, q, q_unfinished, done_event, processing_done_event, thread_pc,
                   thread_task, thread_fia, result_queue, result_unfinished, writer_pc, writer_item, writer_existing_score,
                   disk, outcome, steps, task_done_calls, write_calls, last_write, other_vars>>

\* result_queue.join() returns, and align_fiducial with it
ProducerJoinResultQueue ==
    /\ producer_pc = "join_result_queue"
    /\ result_unfinished = 0
    /\ producer_pc' = "returned"
    /\ UNCHANGED <<next_task, q, q_unfinished, done_event, processing_done_event, thread_pc,
                   thread_task, thread_fia, result_queue, result_unfinished, writer_pc, writer_item, writer_existing_score,
                   disk, outcome, steps, task_done_calls, write_calls, last_write, other_vars>>

Producer ==
    \/ ProducerPut
    \/ ProducerSetDone
    \/ ProducerJoinQueue
    \/ ProducerSetProcessingDone
    \/ ProducerJoinResultQueue


\* ------------------------------------------- align_fiducial_thread (workers)
\* fia.alignment_stats of the results the threads enqueue: a low-scoring and a
\* high-scoring alignment
ThreadStats == {[score |-> 1, pose |-> "poseA"], [score |-> MaxScore, pose |-> "poseB"]}

\* an exception that no except clause of the thread names
RaisedReasons == {"corrupt_catalog"}

\* the alignment steps of one image, in the order the code runs them
StepOrder == <<"rough_align", "precision_align_only", "write_output">>

\* a variant whose get_nowait leaves the task it returns in the queue
ThreadGetNowaitLeavesTask(w) ==
    /\ thread_pc[w] = "get_nowait"
    /\ IF q # <<>>
       THEN /\ thread_task' = [thread_task EXCEPT ![w] = Head(q)]
            /\ thread_fia' = [thread_fia EXCEPT ![w] = NoFia]
            /\ thread_pc' = [thread_pc EXCEPT ![w] = "process"]
       ELSE /\ thread_pc' = [thread_pc EXCEPT ![w] = "empty"]
            /\ UNCHANGED <<thread_task, thread_fia>>
    /\ UNCHANGED <<producer_pc, next_task, q, q_unfinished, done_event, processing_done_event,
                   result_queue, result_unfinished, writer_pc, writer_item, writer_existing_score, disk,
                   outcome, steps, task_done_calls, write_calls, last_write, other_vars>>

\* queue.get_nowait(): a task, or Queue.Empty
ThreadGetNowait(w) ==
    /\ thread_pc[w] = "get_nowait"
    /\ IF q # <<>>
       THEN /\ thread_task' = [thread_task EXCEPT ![w] = Head(q)]
            /\ thread_fia' = [thread_fia EXCEPT ![w] = NoFia]
            /\ q' = Tail(q)
            /\ thread_pc' = [thread_pc EXCEPT ![w] = "process"]
       ELSE /\ thread_pc' = [thread_pc EXCEPT ![w] = "empty"]
            /\ UNCHANGED <<thread_task, thread_fia, q>>
    /\ UNCHANGED <<producer_pc, next_task, q_unfinished, done_event, processing_done_event,
                   result_queue, result_unfinished, writer_pc, writer_item, writer_existing_score, disk,
                   outcome, steps, task_done_calls, write_calls, last_write, other_vars>>

\* except Queue.Empty: if done_event.is_set(): break / continue
ThreadCheckDone(w) ==
    /\ thread_pc[w] = "empty"
    /\ thread_pc' = [thread_pc EXCEPT ![w] = IF done_event THEN "quit" ELSE "get_nowait"]
    /\ UNCHANGED <<producer_pc, next_task, q, q_unfinished, done_event, processing_done_event,
                   thread_task, thread_fia, result_queue, result_unfinished, writer_pc, writer_item, writer_existing_score,
                   disk, outcome, steps, task_done_calls, write_calls, last_write, other_vars>>

\* a variant that enqueues the rough alignment and leaves out precision_align_only
ThreadProcessAlignmentImagePutsRough(w) ==
    /\ thread_pc[w] = "process"
    /\ \E tiles_hit \in BOOLEAN :
          /\ thread_fia' = [thread_fia EXCEPT
                               ![w] = process_alignment_image(NoFia, TRUE, tiles_hit)]
          /\ steps' = [steps EXCEPT ![thread_task[w]] = Append(@, "rough_align")]
          /\ IF tiles_hit
             THEN /\ \E st \in ThreadStats :
                        result_queue' = Append(result_queue,
                                               [image_index |-> thread_task[w], stats |-> st])
                  /\ result_unfinished' = result_unfinished + 1
                  /\ outcome' = [outcome EXCEPT ![thread_task[w]] = "aligned"]
             ELSE /\ outcome' = [outcome EXCEPT ![thread_task[w]] = "skipped"]
                  /\ UNCHANGED <<result_queue, result_unfinished>>
    /\ thread_pc' = [thread_pc EXCEPT ![w] = "task_done"]
    /\ UNCHANGED <<producer_pc, next_task, q, q_unfinished, done_event, processing_done_event,
                   thread_task, writer_pc, writer_item, writer_existing_score, disk, task_done_calls, write_calls,
                   last_write, other_vars>>

\* a variant in which an absent catalog ends the thread
ThreadProcessAlignmentImageNoExistsTest(w) ==
    /\ thread_pc[w] = "process"
    /\ \/ \E tiles_hit \in BOOLEAN :
             /\ thread_fia' = [thread_fia EXCEPT
                                  ![w] = process_alignment_image(NoFia, TRUE, tiles_hit)]
             /\ steps' = [steps EXCEPT ![thread_task[w]] = Append(@, "rough_align")]
             /\ IF tiles_hit
                THEN /\ thread_pc' = [thread_pc EXCEPT ![w] = "precision"]
                     /\ UNCHANGED outcome
                ELSE /\ thread_pc' = [thread_pc EXCEPT ![w] = "task_done"]
                     /\ outcome' = [outcome EXCEPT ![thread_task[w]] = "skipped"]
       \/ /\ outcome' = [outcome EXCEPT ![thread_task[w]] = "skipped"]
          /\ thread_pc' = [thread_pc EXCEPT ![w] = "died"]
          /\ UNCHANGED <<thread_fia, steps>>
    /\ UNCHANGED <<producer_pc, next_task, q, q_unfinished, done_event, processing_done_event,
                   thread_task, result_queue, result_unfinished, writer_pc, writer_item, writer_existing_score,
                   disk, task_done_calls, write_calls, last_write, other_vars>>

\* the else branch up to the test of fia.hitting_tiles: load_image, a new
\* aligner, process_alignment_image
ThreadProcessAlignmentImage(w) ==
    /\ thread_pc[w] = "process"
    /\ \/ \* the catalog of the image is read and rough_align runs
          \E tiles_hit \in BOOLEAN :
             /\ thread_fia' = [thread_fia EXCEPT
                                  ![w] = process_alignment_image(NoFia, TRUE, tiles_hit)]
             /\ tile_store' = aligned(with_fia_tiles(tile_store, w, thread_task[w]),
                                      fia_tiles(w, thread_task[w]), <<"fia", thread_task[w]>>)
             /\ steps' = [steps EXCEPT ![thread_task[w]] = Append(@, "rough_align")]
             /\ IF tiles_hit
                THEN /\ thread_pc' = [thread_pc EXCEPT ![w] = "precision"]
                     /\ UNCHANGED outcome
                ELSE /\ thread_pc' = [thread_pc EXCEPT ![w] = "task_done"]
                     /\ outcome' = [outcome EXCEPT ![thread_task[w]] = "skipped"]
       \/ \* the catalog file is absent: rough_align is not called
          /\ thread_fia' = [thread_fia EXCEPT
                               ![w] = process_alignment_image(NoFia, FALSE, FALSE)]
          /\ tile_store' = with_fia_tiles(tile_store, w, thread_task[w])
          /\ thread_pc' = [thread_pc EXCEPT ![w] = "task_done"]
          /\ outcome' = [outcome EXCEPT ![thread_task[w]] = "skipped"]
          /\ UNCHANGED steps
       \/ \* an exception no except clause names: the thread dies, task_done is not called
          /\ \E reason \in RaisedReasons :
                outcome' = [outcome EXCEPT ![thread_task[w]] = "raised"]
          /\ thread_pc' = [thread_pc EXCEPT ![w] = "died"]
          /\ UNCHANGED <<thread_fia, steps, tile_store>>
    /\ UNCHANGED <<producer_pc, next_task, q, q_unfinished, done_event, processing_done_event,
                   thread_task, result_queue, result_unfinished, writer_pc, writer_item, writer_existing_score,
                   disk, task_done_calls, write_calls, last_write, find_bounds_vars, call_vars, controller_vars>>

\* a variant that enqueues the result whether or not precision_align_only raised
ThreadPrecisionAlignPutsAlways(w) ==
    /\ thread_pc[w] = "precision"
    /\ \E hits \in HitCounts, st \in ThreadStats :
          /\ thread_fia' = [thread_fia EXCEPT
                               ![w] = precision_align_only(thread_fia[w], MinHits, hits)]
          /\ result_queue' = Append(result_queue,
                                    [image_index |-> thread_task[w], stats |-> st])
    /\ result_unfinished' = result_unfinished + 1
    /\ outcome' = [outcome EXCEPT ![thread_task[w]] = "aligned"]
    /\ steps' = [steps EXCEPT ![thread_task[w]] = Append(@, "precision_align_only")]
    /\ thread_pc' = [thread_pc EXCEPT ![w] = "task_done"]
    /\ UNCHANGED <<producer_pc, next_task, q, q_unfinished, done_event, processing_done_event,
                   thread_task, writer_pc, writer_item, writer_existing_score, disk, task_done_calls, write_calls,
                   last_write, other_vars>>

\* a variant that calls queue.task_done() right after precision_align_only and
\* puts the result on the result queue afterwards
ThreadPrecisionAlignPutsAfterDone(w) ==
    \/ /\ thread_pc[w] = "precision"
       /\ \E hits \in HitCounts :
             LET fia == precision_align_only(thread_fia[w], MinHits, hits) IN
             /\ thread_fia' = [thread_fia EXCEPT ![w] = fia]
             /\ outcome' = [outcome EXCEPT ![thread_task[w]] =
                                IF fia.precision = "ValueError" THEN "skipped" ELSE "aligned"]
             /\ thread_pc' = [thread_pc EXCEPT ![w] =
                                IF fia.precision = "ValueError" THEN "get_nowait" ELSE "put_late"]
             /\ thread_task' = [thread_task EXCEPT ![w] =
                                IF fia.precision = "ValueError" THEN 0 ELSE @]
       /\ q_unfinished' = q_unfinished - 1
       /\ task_done_calls' = [task_done_calls EXCEPT ![thread_task[w]] = @ + 1]
       /\ tile_store' = aligned(tile_store, fia_tiles(w, thread_task[w]), <<"fia", thread_task[w]>>)
       /\ steps' = [steps EXCEPT ![thread_task[w]] = Append(@, "precision_align_only")]
       /\ UNCHANGED <<result_queue, result_unfinished>>
       /\ UNCHANGED <<producer_pc, next_task, q, done_event, processing_done_event,
                      writer_pc, writer_item, writer_existing_score, disk, write_calls,
                      last_write, find_bounds_vars, call_vars, controller_vars>>
    \/ /\ thread_pc[w] = "put_late"
       /\ \E st \in ThreadStats :
             result_queue' = Append(result_queue, [image_index |-> thread_task[w], stats |-> st])
       /\ result_unfinished' = result_unfinished + 1
       /\ thread_task' = [thread_task EXCEPT ![w] = 0]
       /\ thread_fia' = [thread_fia EXCEPT ![w] = NoFia]
       /\ thread_pc' = [thread_pc EXCEPT ![w] = "get_nowait"]
       /\ UNCHANGED <<producer_pc, next_task, q, q_unfinished, done_event, processing_done_event,
                      writer_pc, writer_item, writer_existing_score, disk, outcome, steps,
                      task_done_calls, write_calls, last_write, other_vars>>

\* if fia.hitting_tiles: try precision_align_only(min_hits); except ValueError:
\* log; else: result_queue.put((image.index, base_name, fia))
ThreadPrecisionAlign(w) ==
    /\ thread_pc[w] = "precision"
    /\ \E hits \in HitCounts :
          LET fia == precision_align_only(thread_fia[w], MinHits, hits) IN
          /\ thread_fia' = [thread_fia EXCEPT ![w] = fia]
          /\ IF fia.precision = "ValueError"
             THEN /\ outcome' = [outcome EXCEPT ![thread_task[w]] = "skipped"]
                  /\ UNCHANGED <<result_queue, result_unfinished>>
             ELSE /\ \E st \in ThreadStats :
                        result_queue' = Append(result_queue,
                                               [image_index |-> thread_task[w], stats |-> st])
                  /\ result_unfinished' = result_unfinished + 1
                  /\ outcome' = [outcome EXCEPT ![thread_task[w]] = "aligned"]
    /\ tile_store' = aligned(tile_store, fia_tiles(w, thread_task[w]), <<"fia", thread_task[w]>>)
    /\ steps' = [steps EXCEPT ![thread_task[w]] = Append(@, "precision_align_only")]
    /\ thread_pc' = [thread_pc EXCEPT ![w] = "task_done"]
    /\ UNCHANGED <<producer_pc, next_task, q, q_unfinished, done_event, processing_done_event,
                   thread_task, writer_pc, writer_item, writer_existing_score, disk, task_done_calls, write_calls,
                   last_write, find_bounds_vars, call_vars, controller_vars>>

\* a variant that goes on to the next task without queue.task_done()
ThreadTaskDoneOmitted(w) ==
    /\ thread_pc[w] = "task_done"
    /\ task_done_calls' = [task_done_calls EXCEPT ![thread_task[w]] = @ + 1]
    /\ thread_task' = [thread_task EXCEPT ![w] = 0]
    /\ thread_fia' = [thread_fia EXCEPT ![w] = NoFia]
    /\ thread_pc' = [thread_pc EXCEPT ![w] = "get_nowait"]
    /\ UNCHANGED <<producer_pc, next_task, q, q_unfinished, done_event, processing_done_event,
                   result_queue, result_unfinished, writer_pc, writer_item, writer_existing_score, disk,
                   outcome, steps, write_calls, last_write, other_vars>>

\* queue.task_done()
ThreadTaskDone(w) ==
    /\ thread_pc[w] = "task_done"
    /\ q_unfinished' = q_unfinished - 1
    /\ task_done_calls' = [task_done_calls EXCEPT ![thread_task[w]] = @ + 1]
    /\ thread_task' = [thread_task EXCEPT ![w] = 0]
    /\ thread_fia' = [thread_fia EXCEPT ![w] = NoFia]
    /\ thread_pc' = [thread_pc EXCEPT ![w] = "get_nowait"]
    /\ UNCHANGED <<producer_pc, next_task, q, done_event, processing_done_event,
                   result_queue, result_unfinished, writer_pc, writer_item, writer_existing_score, disk,
                   outcome, steps, write_calls, last_write, other_vars>>

Thread(w) ==
    \/ ThreadGetNowait(w)
    \/ ThreadCheckDone(w)
    \/ ThreadProcessAlignmentImage(w)
    \/ ThreadPrecisionAlign(w)
    \/ ThreadTaskDone(w)

\* ------------------------------------------------------------ write_thread
NoItem == [image_index |-> 0, stats |-> [score |-> 0, pose |-> "none"]]

\* result_queue.get(): blocks until a result is there. It is called without a
\* timeout, so it never raises Queue.Empty and the except branch (lines
\* 110-114) is never entered.
WriterGet ==
    /\ writer_pc = "get"
    /\ result_queue # <<>>
    /\ writer_item' = Head(result_queue)
    /\ result_queue' = Tail(result_queue)
    /\ writer_pc' = "write_output"
    /\ UNCHANGED <<producer_pc, next_task, q, q_unfinished, done_event, processing_done_event,
                   thread_pc, thread_task, thread_fia, result_unfinished, writer_existing_score,
                   disk, outcome, steps, task_done_calls, write_calls, last_write, other_vars>>

\* write_output is entered: existing_score = load_existing_score(stats_file_path)
WriterLoadExistingScore ==
    /\ writer_pc = "write_output"
    /\ writer_existing_score' = load_existing_score(disk[writer_item.image_index].stats)
    /\ write_calls' = [write_calls EXCEPT ![writer_item.image_index] = @ + 1]
    /\ steps' = [steps EXCEPT ![writer_item.image_index] = Append(@, "write_output")]
    /\ writer_pc' = "write_files"
    /\ UNCHANGED <<producer_pc, next_task, q, q_unfinished, done_event, processing_done_event,
                   thread_pc, thread_task, thread_fia, result_queue, result_unfinished,
                   writer_item, disk, outcome, task_done_calls, last_write, other_vars>>

\* the rest of write_output: return False if existing_score > 0, else write the
\* stats file and the read file
WriterWriteOutput ==
    /\ writer_pc = "write_files"
    /\ disk' = [disk EXCEPT ![writer_item.image_index] =
                    write_output_store(writer_existing_score, @, writer_item.stats)]
    /\ writer_existing_score' = 0
    /\ writer_pc' = "task_done"
    /\ UNCHANGED <<producer_pc, next_task, q, q_unfinished, done_event, processing_done_event,
                   thread_pc, thread_task, thread_fia, result_queue, result_unfinished,
                   writer_item, outcome, steps, task_done_calls, write_calls, last_write, other_vars>>

\* del fastq_image_aligner; result_queue.task_done()
WriterTaskDone ==
    /\ writer_pc = "task_done"
    /\ result_unfinished' = result_unfinished - 1
    /\ writer_item' = NoItem
    /\ writer_pc' = "get"
    /\ UNCHANGED <<producer_pc, next_task, q, q_unfinished, done_event, processing_done_event,
                   thread_pc, thread_task, thread_fia, result_queue, writer_existing_score,
                   disk, outcome, steps, task_done_calls, write_calls, last_write, other_vars>>

Writer ==
    \/ WriterGet
    \/ WriterLoadExistingScore
    \/ WriterWriteOutput
    \/ WriterTaskDone

\* ------------------------- perform_alignment, process_data_image (callers)
\* perform_alignment: rough alignment, and if a tile hits, precision alignment
\* and, unless it raised ValueError, write_output
PerformAlignmentWrite ==
    /\ \E image_index \in Tasks, tiles_hit \in BOOLEAN, hits \in HitCounts :
          LET rough == process_alignment_image(NoFia, TRUE, tiles_hit)
              fia == IF rough.hitting_tiles
                     THEN precision_align_only(rough, MinHits, hits)
                     ELSE rough
          IN  IF fia.precision = "returned"
              THEN \E new_stats \in AlignmentStats :
                      /\ write_output(image_index, new_stats)
                      /\ record_write("perform_alignment", image_index, new_stats, fia)
              ELSE /\ record_no_write("perform_alignment", image_index, fia, "none")
                   /\ UNCHANGED disk
    /\ UNCHANGED <<pipeline_vars, other_vars>>

\* the image of a task the producer has enqueued is in the acquisition:
\* iterate_all_images yields only images that grid.get found
image_enumerated(image_index) == image_index < next_task

\* process_data_image for the channel the stats file was written for: the file
\* load_aligned_stats_files listed seeds the pose (a file that does not parse
\* makes alignment_from_alignment_file raise, and nothing is written),
\* precision alignment is run again, and write_output is called unless
\* IndexError or ValueError was raised. load_image may return None, and
\* image.index then raises AttributeError before the try statement.
ProcessDataImage ==
    /\ \E image_index \in Tasks :
          /\ disk[image_index].stats.kind # "missing"
          /\ \/ \* image = load_image(...) is None: '%s.cat' % image.index raises
                /\ ~image_enumerated(image_index)
                /\ record_no_write("process_data_image", image_index, NoFia, "AttributeError")
                /\ UNCHANGED <<disk, tile_store>>
             \/ /\ from_file(disk[image_index].stats).ok      \* alignment_from_alignment_file
                \* local_fia = deepcopy(fastq_image_aligner), then the image, the
                \* catalog, the pose and the precision alignment are set on
                \* local_fia, and del local_fia ends it
                /\ tile_store' = deleted(aligned(copied(tile_store, LocalFia(image_index), SharedAligner),
                                                 deepcopy(LocalFia(image_index), SharedAligner),
                                                 <<"local_fia", image_index>>),
                                         LocalFia(image_index))
                /\ \E hits \in HitCounts :
                      LET seeded == [NoFia EXCEPT !.sexcat = TRUE, !.hitting_tiles = TRUE]
                          local_fia == precision_align_only(seeded, MinHits, hits)
                      IN  IF local_fia.precision = "returned"
                          THEN \E new_stats \in AlignmentStats :
                                  /\ write_output(image_index, new_stats)
                                  /\ record_write("process_data_image", image_index,
                                                  new_stats, local_fia)
                          ELSE /\ record_no_write("process_data_image", image_index,
                                                  local_fia, "none")
                               /\ UNCHANGED disk
    /\ UNCHANGED <<pipeline_vars, find_bounds_vars, call_vars, controller_vars>>

\* ------------------------------------- find_bounds, check_column_for_alignment
Acquisitions == 1..NumAcquisitions
Sides == {"left", "right"}

\* grid.columns, and reversed(grid.columns) for the right side
ColumnOrder(s) ==
    IF s = "left"
    THEN [k \in 1..NumColumns |-> k - 1]
    ELSE [k \in 1..NumColumns |-> NumColumns - k]

\* for row in (3, 4, 2)
RowOrder == <<3, 4, 2>>

\* [tile.key for tile in fia.hitting_tiles]: one or two of the possible tile keys
HittingTileKeys == {<<"tileA">>, <<"tileB">>, <<"tileA", "tileB">>}

\* image.column of the image grid.get(row, column) returns
image_column(row, column) == column

\* an acquisition that has no entry in end_tiles
NoBound == [tiles |-> <<>>, column |-> -1]

\* if end_tiles: the dictionary has an entry
HasEntries(d) == \E a \in Acquisitions : d[a] # NoBound

\* the column the for loop of find_bounds is at
CurrentColumn == ColumnOrder(side)[column_pos]

find_bounds_frame == <<pipeline_vars, disk, last_write, call_vars, tile_store, controller_vars>>

\* for column in columns: ... pool.map_async(column_checker, h5_filenames):
\* one task per acquisition, all started together
FindBoundsMapAsync ==
    /\ find_pc = "for_column"
    /\ column_pos <= NumColumns
    /\ find_pc' = "map_async"
    /\ checker_pc' = [a \in Acquisitions |-> "for_row"]
    /\ checker_row' = [a \in Acquisitions |-> 1]
    /\ checker_fia' = [a \in Acquisitions |-> NoFia]
    /\ rows_tried' = [a \in Acquisitions |-> <<>>]
    /\ probed' = Append(probed, CurrentColumn)
    /\ UNCHANGED <<side, column_pos, end_tiles, hit_columns, find_bounds_frame>>

\* one pass of the loop `for row in (3, 4, 2)` of check_column_for_alignment
\* for one acquisition: grid.get; return if the image is None; rough alignment;
\* on a hit, end_tiles[h5_filename] = keys, image.column and break
CheckColumnForAlignment(a) ==
    /\ find_pc = "map_async"
    /\ checker_pc[a] = "for_row"
    /\ rows_tried' = [rows_tried EXCEPT ![a] = Append(@, RowOrder[checker_row[a]])]
    /\ \/ \* image is None: log.warn and return
          /\ checker_pc' = [checker_pc EXCEPT ![a] = "missing_image"]
          /\ UNCHANGED <<checker_row, checker_fia, end_tiles, hit_columns>>
       \/ \E sexcat_exists \in BOOLEAN, tiles_hit \in BOOLEAN :
             LET fia == process_alignment_image(checker_fia[a], sexcat_exists, tiles_hit) IN
             /\ checker_fia' = [checker_fia EXCEPT ![a] = fia]
             /\ IF fia.hitting_tiles
                THEN /\ \E keys \in HittingTileKeys :
                           end_tiles' = [end_tiles EXCEPT
                                           ![a] = [tiles |-> keys,
                                                   column |-> image_column(
                                                       RowOrder[checker_row[a]],
                                                       CurrentColumn)]]
                     /\ hit_columns' = hit_columns \cup {CurrentColumn}
                     /\ checker_pc' = [checker_pc EXCEPT ![a] = "hit"]
                     /\ UNCHANGED checker_row
                ELSE /\ IF checker_row[a] < Len(RowOrder)
                        THEN /\ checker_row' = [checker_row EXCEPT ![a] = @ + 1]
                             /\ UNCHANGED checker_pc
                        ELSE /\ checker_pc' = [checker_pc EXCEPT ![a] = "no_hit"]
                             /\ UNCHANGED checker_row
                     /\ UNCHANGED <<end_tiles, hit_columns>>
    /\ UNCHANGED <<side, find_pc, column_pos, probed, find_bounds_frame>>

\* every task of the pool has returned
AllCheckersReturned ==
    \A a \in Acquisitions : checker_pc[a] \in {"hit", "no_hit", "missing_image"}

\* a variant that returns only after the last column
FindBoundsGetScansOn ==
    /\ find_pc = "map_async"
    /\ AllCheckersReturned
    /\ IF HasEntries(end_tiles) /\ column_pos = NumColumns
       THEN /\ find_pc' = "returned"
            /\ UNCHANGED column_pos
       ELSE /\ find_pc' = "for_column"
            /\ column_pos' = column_pos + 1
    /\ UNCHANGED <<side, end_tiles, checker_pc, checker_row, checker_fia, rows_tried,
                   probed, hit_columns, find_bounds_frame>>

\* .get(sys.maxint) returns when every task has; if end_tiles: return end_tiles
FindBoundsGet ==
    /\ find_pc = "map_async"
    /\ AllCheckersReturned
    /\ IF HasEntries(end_tiles)
       THEN /\ find_pc' = "returned"
            /\ UNCHANGED column_pos
       ELSE /\ find_pc' = "for_column"
            /\ column_pos' = column_pos + 1
    /\ UNCHANGED <<side, end_tiles, checker_pc, checker_row, checker_fia, rows_tried,
                   probed, hit_columns, find_bounds_frame>>

\* a variant that returns end_tiles when the columns are exhausted
FindBoundsReturnsEmpty ==
    /\ find_pc = "for_column"
    /\ column_pos > NumColumns
    /\ find_pc' = "returned"
    /\ UNCHANGED <<side, column_pos, end_tiles, checker_pc, checker_row, checker_fia,
                   rows_tried, probed, hit_columns, find_bounds_frame>>

\* the columns are exhausted: error.fail("Could not find end tiles! ...")
FindBoundsFail ==
    /\ find_pc = "for_column"
    /\ column_pos > NumColumns
    /\ find_pc' = "failed"
    /\ UNCHANGED <<side, column_pos, end_tiles, checker_pc, checker_row, checker_fia,
                   rows_tried, probed, hit_columns, find_bounds_frame>>

\* find_bounds is not running
FindBoundsNotCalled ==
    /\ side = "left"
    /\ find_pc = "not_called"
    /\ column_pos = 1
    /\ end_tiles = [a \in Acquisitions |-> NoBound]
    /\ checker_pc = [a \in Acquisitions |-> "idle"]
    /\ checker_row = [a \in Acquisitions |-> 1]
    /\ checker_fia = [a \in Acquisitions |-> NoFia]
    /\ rows_tried = [a \in Acquisitions |-> <<>>]
    /\ probed = <<>>
    /\ hit_columns = {}

\* ------------------------------------------- one call of a function
\* no function has been called
NoCall == [fn |-> "none"]

NotCalled ==
    /\ call = NoCall
    /\ result = NoCall

\* ------------------------------------------------- the controller at rest
\* metadata['alignment_channel']
AlignmentChannel == "phix"
\* 'end_tiles' not in metadata
NoEndTiles == "absent"

\* champ.yaml as initialize.save writes it (the keys the controller reads)
save ==
    [preprocessed |-> FALSE, end_tiles |-> NoEndTiles, phix_aligned |-> FALSE,
     protein_channels_aligned |-> <<>>]

\* the controller between two runs
Idle(channels, run, log) ==
    [pc |-> "not_running", run |-> run, channels |-> channels, metadata |-> save,
     loaded |-> save, h5_at_start |-> {}, end_tiles |-> "unbound", protein_channels |-> <<>>,
     channel_pos |-> 0, raised |-> "none", log |-> log]

\* the controller has not been run
ControllerNotStarted ==
    /\ metadata_file = save
    /\ h5_files = {}
    /\ controller = Idle(<<AlignmentChannel>>, 0, <<>>)

\* ---------------------------------------------------- one run of the pipeline
\* align_fiducial has started num_processes threads and the writer thread
PipelineStarted(n) ==
    /\ producer_pc = "put"
    /\ next_task = 1
    /\ q = <<>>
    /\ q_unfinished = 0
    /\ done_event = FALSE
    /\ processing_done_event = FALSE
    /\ thread_pc = [w \in Workers |-> IF w <= n THEN "get_nowait" ELSE "not_started"]
    /\ thread_task = [w \in Workers |-> 0]
    /\ thread_fia = [w \in Workers |-> NoFia]
    /\ result_queue = <<>>
    /\ result_unfinished = 0
    /\ writer_pc = "get"
    /\ writer_item = NoItem
    /\ writer_existing_score = 0
    /\ outcome = [t \in Tasks |-> "pending"]
    /\ steps = [t \in Tasks |-> <<>>]
    /\ task_done_calls = [t \in Tasks |-> 0]
    /\ write_calls = [t \in Tasks |-> 0]

\* the pipeline of a machine with up to four cores
PipelineInit == PipelineStarted(1)

\* the threads are started on a results directory that is new, or on one that
\* an earlier run has filled
Init ==
    /\ \E n \in PoolSizes : PipelineStarted(n)
    /\ disk \in {[t \in Tasks |-> FreshFiles],
                 [t \in Tasks |-> write_output_files(FreshFiles, [score |-> 1, pose |-> "poseB"])]}
    /\ last_write = NoWrite
    /\ FindBoundsNotCalled
    /\ NotCalled
    /\ TilesAsLoaded
    /\ ControllerNotStarted

\* a variant in which the second-channel pass does not wait for the first
SecondChannelPassAnyTime ==
    ProcessDataImage

\* the second-channel pass follows the first: process_data_image is called
\* for stats files once align_fiducial has returned
SecondChannelPass ==
    /\ producer_pc = "returned"
    /\ ProcessDataImage

Next ==
    \/ Producer
    \/ \E w \in Workers : Thread(w)
    \/ Writer
    \/ SecondChannelPass

Spec == Init /\ [][Next]_vars

\* every thread that can take a step is eventually scheduled
FairSpec ==
    /\ Spec
    /\ WF_vars(Producer)
    /\ \A w \in Workers : WF_vars(Thread(w))
    /\ WF_vars(Writer)


\* ------------------------------------------- write_output, call after call
\* the first image's files are anything an earlier run or a user left there;
\* the other images have none yet
WriteInit ==
    /\ PipelineInit
    /\ disk \in {d \in [Tasks -> AnyFiles] : \A t \in Tasks : t # 1 => d[t] = FreshFiles}
    /\ last_write = NoWrite
    /\ FindBoundsNotCalled
    /\ NotCalled
    /\ TilesAsLoaded
    /\ ControllerNotStarted

WriteNext ==
    \/ PerformAlignmentWrite
    \/ ProcessDataImage

WriteSpec == WriteInit /\ [][WriteNext]_vars

\* ------------------------------------------------ one call of find_bounds
\* get_end_tiles calls find_bounds for the left side with grid.columns and for
\* the right side with reversed(grid.columns), each time with a new end_tiles
BoundsInit ==
    /\ PipelineInit
    /\ disk = [t \in Tasks |-> FreshFiles]
    /\ last_write = NoWrite
    /\ side \in Sides
    /\ find_pc = "for_column"
    /\ column_pos = 1
    /\ end_tiles = [a \in Acquisitions |-> NoBound]
    /\ checker_pc = [a \in Acquisitions |-> "idle"]
    /\ checker_row = [a \in Acquisitions |-> 1]
    /\ checker_fia = [a \in Acquisitions |-> NoFia]
    /\ rows_tried = [a \in Acquisitions |-> <<>>]
    /\ probed = <<>>
    /\ hit_columns = {}
    /\ NotCalled
    /\ TilesAsLoaded
    /\ ControllerNotStarted

BoundsNext ==
    \/ FindBoundsMapAsync
    \/ \E a \in Acquisitions : CheckColumnForAlignment(a)
    \/ FindBoundsGet
    \/ FindBoundsFail

BoundsSpec == BoundsInit /\ [][BoundsNext]_vars


\* ------------------------------------------- a function called on its own
\* what a function call leaves alone
call_frame == <<pipeline_vars, disk, last_write, find_bounds_vars, tile_store, controller_vars>>

\* the program outside the function that is called
CallInit ==
    /\ PipelineInit
    /\ disk = [t \in Tasks |-> FreshFiles]
    /\ last_write = NoWrite
    /\ FindBoundsNotCalled
    /\ TilesAsLoaded
    /\ ControllerNotStarted
    /\ result = NoCall

\* ------------------------------------ get_end_tiles, after both find_bounds
Range(s) == {s[i] : i \in DOMAIN s}

\* the number of times x is in the list s
Occurrences(s, x) == Cardinality({i \in DOMAIN s : s[i] = x})

\* a variant that returns any element of the list
most_common_any(s) == Range(s)

\* Counter(s).most_common(1)[0][0]: an element no other element of s outnumbers;
\* which one of several equally frequent elements comes first depends on the
\* order of the dictionary, so each of them is a possible value
most_common(s) ==
    {x \in Range(s) : \A y \in Range(s) : Occurrences(s, x) >= Occurrences(s, y)}

RECURSIVE all_tiles(_, _)
\* for filename, (tiles, column) in end_tiles.items(): for tile in tiles:
\* all_tiles.append(tile), over the acquisitions 1..n
all_tiles(bounds, n) ==
    IF n = 0 THEN <<>>
    ELSE all_tiles(bounds, n - 1) \o (IF bounds[n] = NoBound THEN <<>> ELSE bounds[n].tiles)

RECURSIVE columns(_, _)
\* columns.append(column) for every entry of end_tiles
columns(bounds, n) ==
    IF n = 0 THEN <<>>
    ELSE columns(bounds, n - 1) \o (IF bounds[n] = NoBound THEN <<>> ELSE <<bounds[n].column>>)

\* the (best_tile, best_column) pairs decide_default_tiles_and_columns may return
decide_default_tiles_and_columns(bounds) ==
    {[tile |-> t, column |-> c] :
        t \in most_common(all_tiles(bounds, NumAcquisitions)),
        c \in most_common(columns(bounds, NumAcquisitions))}

Min(a, b) == IF a <= b THEN a ELSE b
Max(a, b) == IF a >= b THEN a ELSE b

\* experiment_chip.expected_tile_map(left_tiles, right_tiles, min_column,
\* max_column), kept as what it was called with
expected_tile_map(left_tiles, right_tiles, min_column, max_column) ==
    [left_tiles |-> left_tiles, right_tiles |-> right_tiles,
     min_column |-> min_column, max_column |-> max_column]

\* left_end_tiles.get(filename, ([default_tile], default_column))
get_bound(bounds, filename, default_tile, default_column) ==
    IF bounds[filename] # NoBound
    THEN bounds[filename]
    ELSE [tiles |-> <<default_tile>>, column |-> default_column]

\* a variant that takes the left column as the min and the right column as the max
build_end_tiles_left_to_right(h5_filenames, left_end_tiles, default_left_tile, right_end_tiles, default_right_tile, default_left_column, default_right_column) ==
    [filename \in h5_filenames |->
        LET left == get_bound(left_end_tiles, filename, default_left_tile, default_left_column)
            right == get_bound(right_end_tiles, filename, default_right_tile, default_right_column)
        IN  [min_column |-> left.column,
             max_column |-> right.column,
             tile_map |-> expected_tile_map(left.tiles, right.tiles, left.column, right.column)]]

\* for filename in h5_filenames: the bounds of both sides, min and max of
\* their columns, the tile map for them
build_end_tiles(h5_filenames, left_end_tiles, default_left_tile, right_end_tiles, default_right_tile, default_left_column, default_right_column) ==
    [filename \in h5_filenames |->
        LET left == get_bound(left_end_tiles, filename, default_left_tile, default_left_column)
            right == get_bound(right_end_tiles, filename, default_right_tile, default_right_column)
            min_column == Min(left.column, right.column)
            max_column == Max(left.column, right.column)
        IN  [min_column |-> min_column,
             max_column |-> max_column,
             tile_map |-> expected_tile_map(left.tiles, right.tiles, min_column, max_column)]]

\* what find_bounds returns for one side: the bounds of the acquisitions that
\* aligned at the first column where any of them did
FoundBounds ==
    {d \in [Acquisitions -> {NoBound} \cup [tiles : HittingTileKeys, column : 0..(NumColumns - 1)]] :
        /\ HasEntries(d)
        /\ \A a, b \in Acquisitions :
              (d[a] # NoBound /\ d[b] # NoBound) => d[a].column = d[b].column}

\* get_end_tiles once left_end_tiles and right_end_tiles are there: the
\* defaults of each side, then build_end_tiles
GetEndTiles ==
    /\ call.fn = "get_end_tiles"
    /\ result = NoCall
    /\ \E default_left \in decide_default_tiles_and_columns(call.left_end_tiles),
          default_right \in decide_default_tiles_and_columns(call.right_end_tiles) :
          result' = [fn |-> "get_end_tiles",
                     default_left |-> default_left,
                     default_right |-> default_right,
                     end_tiles |-> build_end_tiles(Acquisitions,
                                       call.left_end_tiles, default_left.tile,
                                       call.right_end_tiles, default_right.tile,
                                       default_left.column, default_right.column)]
    /\ UNCHANGED <<call, call_frame>>

EndTilesInit ==
    /\ CallInit
    /\ call \in [fn : {"get_end_tiles"}, left_end_tiles : FoundBounds, right_end_tiles : FoundBounds]

EndTilesNext == GetEndTiles

EndTilesSpec == EndTilesInit /\ [][EndTilesNext]_vars


\* ------------------------------------------------ get_expected_tile_map
\* the columns of the image grid
Columns == 0..MaxColumn

\* the tile numbers of one side of a MiSeq flow cell: 2101, 2102, ...
TileNumbers == FirstTile..(FirstTile + MISEQ_TILE_COUNT - 1)

\* a tile key 'lane{L}tile{NNNN}'
TileKey(lane, number) == [lane |-> lane, number |-> number]

\* int(tile[-4:]): the last four characters of the key, as a number
tile_number(tile) == tile.number

\* 'lane1tile{0}'.format(number)
format_tile_number(number) == TileKey(1, number)

\* [int(tile[-4:]) for tile in tiles], as the set min, max and `in` work on
tile_numbers(tiles) == {tile_number(tiles[i]) : i \in DOMAIN tiles}

SetMin(S) == CHOOSE x \in S : \A y \in S : x <= y
SetMax(S) == CHOOSE x \in S : \A y \in S : x >= y

\* int(round(float(tiles) / float(width) * column)) for tiles, column >= 0 and
\* width > 0: Python 2 rounds a half away from zero
round_scaled(tiles, width, column) == (2 * tiles * column + width) \div (2 * width)

\* a variant that interpolates over column - min_column
expected_tile_from_min_column(min_tile, max_tile, min_column, max_column, column) ==
    LET expected == round_scaled(max_tile - min_tile + 1, max_column - min_column, column - min_column) - 1
    IN  Min(MISEQ_TILE_COUNT, Max(0, expected)) + min_tile

\* the tile number expected at one column of the loop
expected_tile(min_tile, max_tile, min_column, max_column, column) ==
    LET expected == round_scaled(max_tile - min_tile + 1, max_column - min_column, column) - 1
    IN  Min(MISEQ_TILE_COUNT, Max(0, expected)) + min_tile

\* the keys one turn of the loop appends: the expected tile, then the next
\* higher one unless it is max_tile, then the next lower one unless it is min_tile
appended_tiles(expected, min_tile, max_tile) ==
    <<format_tile_number(expected)>>
        \o (IF expected < max_tile THEN <<format_tile_number(expected + 1)>> ELSE <<>>)
        \o (IF expected > min_tile THEN <<format_tile_number(expected - 1)>> ELSE <<>>)

\* the defaultdict the function returns, read at every column of the grid: a
\* column no turn of the loop wrote to reads as the empty list
get_expected_tile_map(left_tiles, right_tiles, min_column, max_column) ==
    LET left_numbers == tile_numbers(left_tiles)
        right_numbers == tile_numbers(right_tiles)
        min_tile == SetMin(left_numbers \cup right_numbers)
        max_tile == SetMax(left_numbers \cup right_numbers)
        invert_map == min_tile \notin left_numbers
        tile_map_column(column) == IF ~invert_map THEN column ELSE max_column - column
        written(k) == {column \in min_column..max_column : tile_map_column(column) = k}
    IN  [k \in Columns |->
            IF written(k) = {} THEN <<>>
            ELSE LET column == CHOOSE c \in written(k) : TRUE
                 IN  appended_tiles(expected_tile(min_tile, max_tile, min_column, max_column, column),
                                    min_tile, max_tile)]

\* the end tiles of one side: one key, or two keys of neighbouring tiles
EndTileLists ==
    {<<TileKey(1, n)>> : n \in TileNumbers}
        \cup {<<TileKey(1, n), TileKey(1, n + 1)>> : n \in TileNumbers \ {FirstTile + MISEQ_TILE_COUNT - 1}}

GetExpectedTileMap ==
    /\ call.fn = "get_expected_tile_map"
    /\ result = NoCall
    /\ result' = [fn |-> "get_expected_tile_map",
                  tile_map |-> get_expected_tile_map(call.left_tiles, call.right_tiles,
                                                     call.min_column, call.max_column)]
    /\ UNCHANGED <<call, call_frame>>

TileMapInit ==
    /\ CallInit
    /\ call \in {c \in [fn : {"get_expected_tile_map"}, left_tiles : EndTileLists,
                        right_tiles : EndTileLists, min_column : Columns, max_column : Columns] :
                    c.min_column < c.max_column}

TileMapNext == GetExpectedTileMap

TileMapSpec == TileMapInit /\ [][TileMapNext]_vars


\* ------------------------------------------------------- load_read_names
\* what a field of a read name may be
FieldValues == {"1", "2"}

\* a line of the file as `for line in f` yields it: the text, which consists of
\* fields with ':' between them, and the end of the line behind it
Lines == UNION {[fields : [1..n -> FieldValues], eol : {"\n"}] : n \in 1..(MaxSplit + 2)}

\* the files: up to MaxLines lines
ReadNameFiles == UNION {[1..n -> Lines] : n \in 0..MaxLines}

\* line.strip(): the text without the end of the line
strip(line) == line.fields

\* text.rsplit(':', 4): at most four splits, made from the right; what is
\* left of the fourth ':' stays in one piece
rsplit(text, maxsplit) ==
    IF Len(text) <= maxsplit + 1
    THEN text
    ELSE <<SubSeq(text, 1, Len(text) - maxsplit)>>
            \o SubSeq(text, Len(text) - maxsplit + 1, Len(text))

\* parts[1:3]: the second and third piece, as far as they exist
slice_1_3(parts) == SubSeq(parts, 2, Min(3, Len(parts)))

\* lane, tile = ...: unpacking raises ValueError unless there are two values
unpack_raises(values) == Len(values) # 2

\* 'lane{0}tile{1}'.format(lane, tile)
lane_tile_key(lane, tile) == <<"lane", lane, "tile", tile>>

\* the key of an accepted line
key_of(line) ==
    LET values == slice_1_3(rsplit(strip(line), MaxSplit))
    IN  lane_tile_key(values[1], values[2])

\* the try block went through: the line is added to tiles[key]
accepted(line) == ~unpack_raises(slice_1_3(rsplit(strip(line), MaxSplit)))

\* {key: list(values) for key, values in tiles.items()}, each list as a set
load_read_names(file_path, lines) ==
    IF file_path = ""
    THEN <<>>
    ELSE LET taken == {i \in DOMAIN lines : accepted(lines[i])}
             keys == {key_of(lines[i]) : i \in taken}
         IN  [key \in keys |-> {strip(lines[i]) : i \in {j \in taken : key_of(lines[j]) = key}}]

LoadReadNames ==
    /\ call.fn = "load_read_names"
    /\ result = NoCall
    /\ result' = [fn |-> "load_read_names",
                  tiles |-> load_read_names(call.file_path, call.lines)]
    /\ UNCHANGED <<call, call_frame>>

\* the path is empty, or it names a file
ReadNamesInit ==
    /\ CallInit
    /\ \/ call = [fn |-> "load_read_names", file_path |-> "", lines |-> <<>>]
       \/ call \in [fn : {"load_read_names"}, file_path : {"read_names.txt"}, lines : ReadNameFiles]

ReadNamesNext == LoadReadNames

ReadNamesSpec == ReadNamesInit /\ [][ReadNamesNext]_vars


\* ------------------------------------------------------ next_power_of_2
\* a number num / den with den > 0; the whole number n is n / 1
Whole(n) == [num |-> n, den |-> 1]

\* the numbers next_power_of_2 is called with: whole numbers and halves
Numbers == [num : 1..MaxNumber, den : {1}] \cup [num : {n \in 1..(2 * MaxNumber) : n % 2 = 1}, den : {2}]

\* int(np.ceil(x)): the smallest whole number that is not below x
ceil(x) == -((-x.num) \div x.den)

RECURSIVE bit_length(_)
\* n.bit_length() for n >= 0: the number of binary digits of n, 0 for n = 0
bit_length(n) == IF n = 0 THEN 0 ELSE 1 + bit_length(n \div 2)

\* a variant that shifts by the bit length of ceil(x) itself
next_power_of_2_of_n(x) == 2 ^ bit_length(ceil(x))

\* 1 << (int(np.ceil(x)) - 1).bit_length()
next_power_of_2(x) == 2 ^ bit_length(ceil(x) - 1)

NextPowerOf2 ==
    /\ call.fn = "next_power_of_2"
    /\ result = NoCall
    /\ result' = [fn |-> "next_power_of_2", value |-> next_power_of_2(call.x)]
    /\ UNCHANGED <<call, call_frame>>

PowerInit ==
    /\ CallInit
    /\ call \in [fn : {"next_power_of_2"}, x : Numbers]

PowerNext == NextPowerOf2

PowerSpec == PowerInit /\ [][PowerNext]_vars

\* ------------------------------------------------------ ImageData.set_fft
\* self.image: H rows by W columns; each pixel has a value of its own, none 0
Image(H, W) == [r \in 1..H |-> [c \in 1..W |-> 100 * r + c]]

Shape(M) == <<Len(M), IF Len(M) = 0 THEN 0 ELSE Len(M[1])>>

\* np.pad(M, ((before_r, after_r), (before_c, after_c)), mode='constant'):
\* zeros around M; a negative width raises ValueError
np_pad(M, before_r, after_r, before_c, after_c) ==
    IF before_r < 0 \/ after_r < 0 \/ before_c < 0 \/ after_c < 0
    THEN [raised |-> "ValueError", array |-> <<>>]
    ELSE [raised |-> "none",
          array |-> [r \in 1..(before_r + Shape(M)[1] + after_r) |->
                        [c \in 1..(before_c + Shape(M)[2] + after_c) |->
                            IF /\ r > before_r /\ r <= before_r + Shape(M)[1]
                               /\ c > before_c /\ c <= before_c + Shape(M)[2]
                            THEN M[r - before_r][c - before_c]
                            ELSE 0]]]

\* a variant that puts all the zeros behind the image
padded_im_behind(image, padding) ==
    LET totalx == padding[1] + Shape(image)[1]
        totaly == padding[2] + Shape(image)[2]
        w == next_power_of_2(Whole(totalx))
        h == next_power_of_2(Whole(totaly))
    IN  np_pad(image, 0, w - Shape(image)[1], 0, h - Shape(image)[2])

\* padded_im of set_fft(padding)
padded_im(image, padding) ==
    LET totalx == padding[1] + Shape(image)[1]
        totaly == padding[2] + Shape(image)[2]
        w == next_power_of_2(Whole(totalx))
        h == next_power_of_2(Whole(totaly))
    IN  np_pad(image, padding[1], w - totalx, padding[2], h - totaly)

\* self.fft = np.fft.fft2(padded_im), kept as the canvas it is the transform of
SetFft ==
    /\ call.fn = "set_fft"
    /\ result = NoCall
    /\ LET padded == padded_im(call.image, call.padding)
       IN  result' = [fn |-> "set_fft", raised |-> padded.raised, fft2_of |-> padded.array]
    /\ UNCHANGED <<call, call_frame>>

FftInit ==
    /\ CallInit
    /\ \E H, W \in 1..MaxSide :
          call \in [fn : {"set_fft"}, image : {Image(H, W)}, padding : (0..MaxPadding) \X (0..MaxPadding)]

FftNext == SetFft

FftSpec == FftInit /\ [][FftNext]_vars


\* ------------------------------------------------------ run_data_channel
\* the names os.listdir may find in the results directory of an acquisition:
\* {channel}_{row}_{column}{ending}; "x" is a row that is not a number
ResultFileNames ==
    [channel : {"phix", "protein"}, row : {"3", "x"}, column : {"0"},
     ending : {"_stats.txt", "_all_read_rcs.txt"}]

\* run_data_channel up to the first statement that ends it: the message of
\* line 124 is formatted with the name chunksize, which is bound nowhere, so
\* NameError is raised before the aligner and the pool are made and before
\* load_aligned_stats_files is asked for a single file; pools are the sizes
\* of the multiprocessing.Pool objects the call has made
RunDataChannel ==
    /\ call.fn = "run_data_channel"
    /\ result = NoCall
    /\ result' = [fn |-> "run_data_channel",
                  raised |-> "NameError",
                  pools |-> <<>>,
                  process_data_image_calls |-> <<>>,
                  rough_align_calls |-> 0,
                  warned |-> {}]
    /\ UNCHANGED <<call, call_frame>>

DataChannelInit ==
    /\ CallInit
    /\ call \in [fn : {"run_data_channel"}, alignment_channel : {"phix"},
                 channel_name : {"protein"}, listdir : SUBSET ResultFileNames]

DataChannelNext == RunDataChannel

DataChannelSpec == DataChannelInit /\ [][DataChannelNext]_vars


\* ------------------------------------------------- the TIFF stack iterators
\* the heights and widths an image may have: half a field, one field, one and
\* a half, two
ImageSides == {FieldSide \div 2, FieldSide, FieldSide + FieldSide \div 2, 2 * FieldSide}

\* summary['Height'], summary['Width'] of the files of a stack, one image each
TifStacks == UNION {[1..n -> [height : ImageSides, width : ImageSides]] : n \in 1..MaxFiles}

\* height % 512 != 0 or width % 512 != 0
not_multiple_of_512(tif) == tif.height % FieldSide # 0 \/ tif.width % FieldSide # 0

\* the length of image[sub * 512: (sub * 512) + 512] along an axis of length n
slice_length(n, sub) == Max(0, Min(n, sub * FieldSide + FieldSide) - sub * FieldSide)

\* summed_images[channel] += image adds in place to zeros((512, 512)): numpy
\* needs each axis of image to have length 512 or 1, else it raises ValueError
adds_to_field(height, width) == height \in {FieldSide, 1} /\ width \in {FieldSide, 1}

\* the generator run to its end: what it yielded, and whether it raised
Iterated(yielded, raised) == [yielded |-> yielded, raised |-> raised]

\* a yielded TIFSingleFieldOfView: the file it is from, the shape of its images
FieldOfView(file, subrow, subcolumn) ==
    [file |-> file, subrow |-> subrow, subcolumn |-> subcolumn, shape |-> <<FieldSide, FieldSide>>]

RECURSIVE per_field_of_view_loop(_, _, _, _, _)
\* TifsPerFieldOfView.__iter__ from line 73 on, at turn k of the three nested
\* loops, with subrows and subcolumns as the first file gave them
per_field_of_view_loop(tifs, subrows, subcolumns, k, yielded) ==
    IF k = Len(tifs) * subrows * subcolumns
    THEN Iterated(yielded, "none")
    ELSE LET file == k \div (subrows * subcolumns) + 1
             subrow == (k % (subrows * subcolumns)) \div subcolumns
             subcolumn == k % subcolumns
         IN  IF adds_to_field(slice_length(tifs[file].height, subrow),
                              slice_length(tifs[file].width, subcolumn))
             THEN per_field_of_view_loop(tifs, subrows, subcolumns, k + 1,
                                         Append(yielded, FieldOfView(file, subrow, subcolumn)))
             ELSE Iterated(yielded, "ValueError")

\* TifsPerFieldOfView.__iter__: height and width are read from the first file
per_field_of_view(tifs) ==
    IF not_multiple_of_512(tifs[1])
    THEN Iterated(<<>>, "ValueError")
    ELSE per_field_of_view_loop(tifs, tifs[1].height \div FieldSide, tifs[1].width \div FieldSide, 0, <<>>)

\* the fields of one file of TifsPerConcentration, for the one position it holds
fields_of_file(tifs, file) ==
    LET subrows == tifs[file].height \div FieldSide
        subcolumns == tifs[file].width \div FieldSide
    IN  [k \in 1..(subrows * subcolumns) |->
            FieldOfView(file, (k - 1) \div subcolumns, (k - 1) % subcolumns)]

RECURSIVE per_concentration_loop(_, _, _)
\* TifsPerConcentration.__iter__ at file number `file`
per_concentration_loop(tifs, file, yielded) ==
    IF file > Len(tifs)
    THEN Iterated(yielded, "none")
    ELSE IF not_multiple_of_512(tifs[file])
         THEN Iterated(yielded, "ValueError")
         ELSE per_concentration_loop(tifs, file + 1, yielded \o fields_of_file(tifs, file))

\* TifsPerConcentration.__iter__: height and width are read from each file
per_concentration(tifs) == per_concentration_loop(tifs, 1, <<>>)

IterateTifsPerFieldOfView ==
    /\ call.fn = "TifsPerFieldOfView.__iter__"
    /\ result = NoCall
    /\ result' = [fn |-> call.fn, iterated |-> per_field_of_view(call.tifs)]
    /\ UNCHANGED <<call, call_frame>>

IterateTifsPerConcentration ==
    /\ call.fn = "TifsPerConcentration.__iter__"
    /\ result = NoCall
    /\ result' = [fn |-> call.fn, iterated |-> per_concentration(call.tifs)]
    /\ UNCHANGED <<call, call_frame>>

TiffInit ==
    /\ CallInit
    /\ call \in [fn : {"TifsPerFieldOfView.__iter__", "TifsPerConcentration.__iter__"},
                 tifs : TifStacks]

TiffNext ==
    \/ IterateTifsPerFieldOfView
    \/ IterateTifsPerConcentration

TiffSpec == TiffInit /\ [][TiffNext]_vars

\* -------------------------- the threads and the pool the channels are given
\* multiprocessing.cpu_count() of the machine
Cores == 1..MaxCores

\* num_processes of align_fiducial (line 26)
num_processes(cpu_count) == Max(cpu_count - 3, 1)

\* align_fiducial, lines 26-31: num_processes, the two events and the two
\* queues are made; no thread is started yet
AlignFiducialMakeQueues ==
    /\ call.fn = "align_fiducial"
    /\ result = NoCall
    /\ result' = [fn |-> "align_fiducial",
                  raised |-> "none",
                  q_maxsize |-> num_processes(call.cpu_count),
                  result_queue_maxsize |-> 0,
                  alignment_threads |-> 0,
                  write_threads |-> 0]
    /\ UNCHANGED <<call, call_frame>>

\* one round of the loop of lines 34-38: for _ in range(num_processes) a
\* thread running align_fiducial_thread is started
AlignFiducialStartThread ==
    /\ call.fn = "align_fiducial"
    /\ result # NoCall
    /\ result.alignment_threads < num_processes(call.cpu_count)
    /\ result' = [result EXCEPT !.alignment_threads = @ + 1]
    /\ UNCHANGED <<call, call_frame>>

\* lines 43-46, after the loop: one thread running write_thread is started
AlignFiducialStartWriteThread ==
    /\ call.fn = "align_fiducial"
    /\ result # NoCall
    /\ result.alignment_threads = num_processes(call.cpu_count)
    /\ result.write_threads = 0
    /\ result' = [result EXCEPT !.write_threads = 1]
    /\ UNCHANGED <<call, call_frame>>

StartInit ==
    /\ CallInit
    /\ call \in [fn : {"align_fiducial", "run_data_channel"}, cpu_count : Cores]

StartNext ==
    \/ AlignFiducialMakeQueues
    \/ AlignFiducialStartThread
    \/ AlignFiducialStartWriteThread
    \/ RunDataChannel

StartSpec == StartInit /\ [][StartNext]_vars

\* ------------------------------------------------------ iterate_all_images
\* the acquisitions iterate_all_images may be given, and the lists of them
H5Filenames == {"a.h5", "b.h5"}
H5FilenameLists ==
    {<<f>> : f \in H5Filenames} \cup
    {<<f, g>> : <<f, g>> \in {p \in H5Filenames \X H5Filenames : p[1] # p[2]}}

\* grid._height, and the rows and columns of the grid of an acquisition
GridHeight == 2
GridRows == 0..(GridHeight - 1)
GridColumns == 0..(NumColumns - 1)

\* the tile map of an acquisition: the candidate tile keys of each column
TileMapOf(h5_filename) == [column \in GridColumns |-> <<h5_filename, "tiles of column", column>>]

\* end_tiles as build_end_tiles leaves it: min_column <= max_column
EndTilesOfFile ==
    {<<min_column, max_column>> \in GridColumns \X GridColumns : min_column <= max_column}

\* range(start, stop) of Python: start, start + 1, ... stop - 1
range(start, stop) == [i \in 1..Max(stop - start, 0) |-> start + i - 1]

\* for column in range(min_column, max_column): for row in range(grid._height):
\* the (row, column) pairs in the order the two loops visit them
visited(min_column, max_column) ==
    LET column_list == range(min_column, max_column)
        row_list == range(0, GridHeight)
    IN [i \in 1..(Len(column_list) * GridHeight) |->
           <<row_list[((i - 1) % GridHeight) + 1], column_list[((i - 1) \div GridHeight) + 1]>>]

\* what the loops yield for one acquisition: grid.get(row, column) is None
\* for an image that was not taken
images_of_file(h5_filename, file_end_tiles, grid) ==
    LET min_column == file_end_tiles[h5_filename][1]
        max_column == file_end_tiles[h5_filename][2]
        tile_map == file_end_tiles[h5_filename][3]
        present == SelectSeq(visited(min_column, max_column), LAMBDA rc : rc \in grid[h5_filename])
    IN [i \in 1..Len(present) |->
           <<present[i][1], present[i][2], h5_filename, tile_map[present[i][2]]>>]

RECURSIVE iterate_all_images(_, _, _, _)
iterate_all_images(h5_filenames, file_end_tiles, grid, k) ==
    IF k > Len(h5_filenames) THEN <<>>
    ELSE images_of_file(h5_filenames[k], file_end_tiles, grid)
            \o iterate_all_images(h5_filenames, file_end_tiles, grid, k + 1)

\* the generator run until it is exhausted, as the loop of align_fiducial does
IterateAllImages ==
    /\ call.fn = "iterate_all_images"
    /\ result = NoCall
    /\ result' = [fn |-> "iterate_all_images",
                  yielded |-> iterate_all_images(call.h5_filenames, call.end_tiles, call.grid, 1)]
    /\ UNCHANGED <<call, call_frame>>

IterateInit ==
    /\ CallInit
    /\ \E h5_filenames \in H5FilenameLists :
         \E bounds \in [Range(h5_filenames) -> EndTilesOfFile] :
           \E grid \in [Range(h5_filenames) -> SUBSET (GridRows \X GridColumns)] :
              call = [fn |-> "iterate_all_images",
                      h5_filenames |-> h5_filenames,
                      end_tiles |-> [f \in Range(h5_filenames) |->
                                        <<bounds[f][1], bounds[f][2], TileMapOf(f)>>],
                      grid |-> grid]

IterateNext == IterateAllImages

IterateSpec == IterateInit /\ [][IterateNext]_vars

\* ------------------------------------------- the controller (champ align)
\* what projectinfo.load_channels may find
ChannelNames == {"phix", "protein"}
ChannelLists == {<<"phix">>, <<"phix", "protein">>}

\* channel_combo = channel_name + "_unclassified"
channel_combo(channel_name) == <<channel_name, "_unclassified">>

\* what get_end_tiles may return for the acquisitions of the directory
EndTilesValues == {"tilesA", "tilesB"}
\* lists without a repeated element
NoDuplicates(s) == \A i, j \in DOMAIN s : s[i] = s[j] => i = j
ComboLists ==
    {s \in UNION {[1..n -> {channel_combo(c) : c \in ChannelNames}] : n \in 0..Cardinality(ChannelNames)} :
        NoDuplicates(s)}

\* champ.yaml as the controller may find it: as save wrote it, as an earlier
\* session updated it, or as it was edited by hand
MetadataFiles ==
    [preprocessed : BOOLEAN, end_tiles : {NoEndTiles} \cup EndTilesValues,
     phix_aligned : BOOLEAN, protein_channels_aligned : ComboLists]

\* initialize.update(image_directory, metadata): the file becomes the metadata
update(metadata) == metadata

\* initialize.load(image_directory): the metadata are what the file holds
load(file) == file

\* an entry of the history of the controller's calls: the run, what was
\* called, the .h5 files there were, an argument or value, how the call ended
logged(c, event, files, arg, how) ==
    [c EXCEPT !.log = Append(@, [run |-> c.run, event |-> event, files |-> files, arg |-> arg,
                                 outcome |-> how])]

\* a run ends: main returns, or an exception or error.fail ends it
ended(c, raised) == [c EXCEPT !.pc = "not_running", !.raised = raised]

\* a variant of line 67 that looks for end tiles whatever the metadata hold
end_tiles_ignored(metadata) == TRUE

\* line 67: 'end_tiles' not in metadata
end_tiles_missing(metadata) == metadata.end_tiles = NoEndTiles

\* line 32: 'preprocessed' not in metadata or not metadata['preprocessed']
not_preprocessed(metadata) == ~metadata.preprocessed

controller_frame == <<pipeline_vars, disk, last_write, find_bounds_vars, call_vars, tile_store>>

\* main, line 30: a run starts and loads the metadata
MainLoad ==
    /\ controller.pc = "not_running"
    /\ controller.run < MaxRuns
    /\ controller' = [Idle(controller.channels, controller.run + 1, controller.log)
                         EXCEPT !.pc = "if_preprocessed",
                                !.metadata = load(metadata_file),
                                !.loaded = load(metadata_file),
                                !.h5_at_start = h5_files]
    /\ UNCHANGED <<metadata_file, h5_files, controller_frame>>

\* main, lines 32-35: without the preprocessed flag every .h5 file that
\* load_filenames lists is unlinked
MainUnlink ==
    /\ controller.pc = "if_preprocessed"
    /\ IF not_preprocessed(controller.metadata)
       THEN /\ h5_files' = {}
            /\ controller' = [logged(controller, "os.unlink", h5_files, "", "returned")
                                 EXCEPT !.pc = "preprocess"]
       ELSE /\ h5_files' = h5_files
            /\ controller' = [controller EXCEPT !.pc = "load_filenames"]
    /\ UNCHANGED <<metadata_file, controller_frame>>

\* preprocess, lines 9-21: convert.main writes the HDF5 files, fits.main
\* works on them, the flag is set and the metadata are saved
Preprocess ==
    /\ controller.pc = "preprocess"
    /\ h5_files' = H5Filenames
    /\ LET c == logged(controller, "convert.main", h5_files, "", "returned")
       IN  /\ controller' = [c EXCEPT !.pc = "load_filenames", !.metadata.preprocessed = TRUE]
           /\ metadata_file' = update(controller'.metadata)
    /\ UNCHANGED controller_frame

\* preprocess is stopped while convert.main writes (an exception, or the
\* process is killed): some HDF5 files are there, the flag is not set
PreprocessInterrupted ==
    /\ controller.pc = "preprocess"
    /\ h5_files' \in SUBSET H5Filenames
    /\ controller' = ended(logged(controller, "convert.main", h5_files, "", "interrupted"), "interrupted")
    /\ UNCHANGED <<metadata_file, controller_frame>>

\* main, lines 38-65: without a single HDF5 file error.fail ends the run;
\* otherwise directories are made and the tile data are loaded
MainLoadFilenames ==
    /\ controller.pc = "load_filenames"
    /\ controller' = IF h5_files = {}
                     THEN ended(controller, "error.fail")
                     ELSE [controller EXCEPT !.pc = "if_end_tiles"]
    /\ UNCHANGED <<metadata_file, h5_files, controller_frame>>

\* main, lines 67-73: get_end_tiles is called when the metadata hold no end
\* tiles; what it returns is put into the metadata, which are saved. With end
\* tiles in the metadata these are taken. find_bounds ends the run with
\* error.fail when no end tile was found.
MainGetEndTiles ==
    /\ controller.pc = "if_end_tiles"
    /\ IF end_tiles_missing(controller.metadata)
       THEN \/ \E found \in EndTilesValues :
                 LET c == logged(controller, "get_end_tiles", h5_files, found, "returned")
                 IN  /\ controller' = [c EXCEPT !.pc = "if_phix_aligned",
                                                !.end_tiles = found,
                                                !.metadata.end_tiles = found]
                     /\ metadata_file' = update(controller'.metadata)
            \/ /\ controller' = ended(logged(controller, "get_end_tiles", h5_files, "", "error.fail"),
                                      "error.fail")
               /\ metadata_file' = metadata_file
       ELSE /\ controller' = [controller EXCEPT !.pc = "if_phix_aligned",
                                                !.end_tiles = controller.metadata.end_tiles]
            /\ metadata_file' = metadata_file
    /\ UNCHANGED <<h5_files, controller_frame>>

\* main, lines 75-81: without the phix_aligned flag align.run is called. The
\* module champ.align defines align_fiducial and no run: looking up align.run
\* raises AttributeError, so lines 78-79 are never reached.
MainAlignPhix ==
    /\ controller.pc = "if_phix_aligned"
    /\ controller' = IF ~controller.metadata.phix_aligned
                     THEN ended(logged(controller, "align.run", h5_files, "", "AttributeError"),
                                "AttributeError")
                     ELSE [controller EXCEPT !.pc = "load_channels"]
    /\ UNCHANGED <<metadata_file, h5_files, controller_frame>>

\* [channel for channel in channels if channel != alignment_channel]
protein_channels_of(channels) == SelectSeq(channels, LAMBDA channel : channel # AlignmentChannel)

\* main, lines 83-89: the channels but the alignment channel, or the
\* alignment channel when there is no other
MainLoadChannels ==
    /\ controller.pc = "load_channels"
    /\ controller' = [controller EXCEPT
                         !.pc = "for_channel",
                         !.channel_pos = 1,
                         !.protein_channels =
                             IF protein_channels_of(controller.channels) # <<>>
                             THEN protein_channels_of(controller.channels)
                             ELSE <<AlignmentChannel>>]
    /\ UNCHANGED <<metadata_file, h5_files, controller_frame>>

\* one round of the loop of lines 91-101 with combo_align (lines 104-109):
\* run_data_channel is called for a channel that is not in
\* protein_channels_aligned; it raises NameError (line 124), so lines 108-109
\* are never reached. After the last channel main returns.
MainComboAlign ==
    /\ controller.pc = "for_channel"
    /\ controller' =
          IF controller.channel_pos > Len(controller.protein_channels)
          THEN ended(controller, "none")
          ELSE LET channel_name == controller.protein_channels[controller.channel_pos]
               IN  IF \A i \in DOMAIN controller.metadata.protein_channels_aligned :
                         controller.metadata.protein_channels_aligned[i] # channel_combo(channel_name)
                   THEN ended(logged(controller, "run_data_channel", h5_files, channel_name, "NameError"),
                              "NameError")
                   ELSE [controller EXCEPT !.channel_pos = @ + 1]
    /\ UNCHANGED <<metadata_file, h5_files, controller_frame>>

ControllerInit ==
    /\ PipelineInit
    /\ disk = [t \in Tasks |-> FreshFiles]
    /\ last_write = NoWrite
    /\ FindBoundsNotCalled
    /\ NotCalled
    /\ TilesAsLoaded
    /\ metadata_file \in MetadataFiles
    /\ h5_files \in SUBSET H5Filenames
    /\ \E channels \in ChannelLists : controller = Idle(channels, 0, <<>>)

ControllerNext ==
    \/ MainLoad
    \/ MainUnlink
    \/ Preprocess
    \/ PreprocessInterrupted
    \/ MainLoadFilenames
    \/ MainGetEndTiles
    \/ MainAlignPhix
    \/ MainLoadChannels
    \/ MainComboAlign

ControllerSpec == ControllerInit /\ [][ControllerNext]_vars

\* ------------------------------------------- the dataset names of the fields
\* the two numbers name_regex finds in a file name or a PositionName
AxisPositions == [first : 0..MaxAxisPosition, second : 0..MaxAxisPosition]

\* the positions of a stack, no two alike, in the order they are met
PositionLists ==
    {s \in UNION {[1..n -> AxisPositions] : n \in 1..MaxPositions} : NoDuplicates(s)}

\* the axes property: (first, second) of every position, or (second, first)
\* of every position when the largest second is above the largest first
axes(positions) ==
    LET best_first == SetMax({0} \cup {positions[i].first : i \in DOMAIN positions})
        best_second == SetMax({0} \cup {positions[i].second : i \in DOMAIN positions})
    IN  [i \in DOMAIN positions |->
            IF best_second > best_first
            THEN [major |-> positions[i].second, minor |-> positions[i].first]
            ELSE [major |-> positions[i].first, minor |-> positions[i].second]]

\* the characters of str(n) for an integer n
Digit(d) == <<"0", "1", "2", "3", "4", "5", "6", "7", "8", "9">>[d + 1]
RECURSIVE digits(_)
digits(n) == IF n < 10 THEN <<Digit(n)>> ELSE digits(n \div 10) \o <<Digit(n % 10)>>
str(n) == IF n < 0 THEN <<"-">> \o digits(0 - n) ELSE digits(n)

\* '(Major, minor) = ({}, {})'.format(major_axis_label, minor_axis_label)
dataset_name(major_axis_label, minor_axis_label) ==
    <<"(Major, minor) = (">> \o str(major_axis_label) \o <<",", " ">> \o str(minor_axis_label) \o <<")">>

\* a variant of the major label that does not scale the position
major_axis_label_unscaled(major_axis_position, subcolumns, subcolumn) ==
    major_axis_position + subcolumn + 2

\* TifsPerFieldOfView.__iter__, lines 78 and 80
minor_axis_label(minor_axis_position, subrows, subrow) ==
    (minor_axis_position * subrows) - subrows + subrow
major_axis_label(major_axis_position, subcolumns, subcolumn) ==
    (major_axis_position * subcolumns) - subcolumns + subcolumn + 2

\* TifsPerConcentration.__iter__, lines 168 and 170
minor_axis_label_per_concentration(minor_axis_position, subrows, subrow) ==
    (minor_axis_position * subrows) - subrows + subrow + 1
major_axis_label_per_concentration(major_axis_position, subcolumns, subcolumn) ==
    (major_axis_position * subcolumns) - subcolumns + subcolumn + 1

\* what is known of a yielded TIFSingleFieldOfView: the file and the position
\* it is from, and its dataset_name
NamedField(file, position, name) == [file |-> file, position |-> position, name |-> name]

\* TifsPerFieldOfView.__iter__ for files of one height and width, one file per
\* position: the loops over file_path, subrow and subcolumn
names_per_field_of_view(positions, height, width) ==
    LET subrows == height \div FieldSide
        subcolumns == width \div FieldSide
        per_file == subrows * subcolumns
    IN  [k \in 1..(Len(positions) * per_file) |->
            LET file == (k - 1) \div per_file + 1
                subrow == ((k - 1) % per_file) \div subcolumns
                subcolumn == (k - 1) % subcolumns
            IN  NamedField(file, file,
                    dataset_name(major_axis_label(axes(positions)[file].major, subcolumns, subcolumn),
                                 minor_axis_label(axes(positions)[file].minor, subrows, subrow)))]

\* TifsPerConcentration.__iter__ for files of one height and width that hold
\* the same positions: the loops over file_path, position_text, subrow and
\* subcolumn
names_per_concentration(files, positions, height, width) ==
    LET subrows == height \div FieldSide
        subcolumns == width \div FieldSide
        per_position == subrows * subcolumns
        per_file == Len(positions) * per_position
    IN  [k \in 1..(files * per_file) |->
            LET file == (k - 1) \div per_file + 1
                position == ((k - 1) % per_file) \div per_position + 1
                subrow == ((k - 1) % per_position) \div subcolumns
                subcolumn == (k - 1) % subcolumns
            IN  NamedField(file, position,
                    dataset_name(major_axis_label_per_concentration(axes(positions)[position].major, subcolumns, subcolumn),
                                 minor_axis_label_per_concentration(axes(positions)[position].minor, subrows, subrow)))]

NameTifsPerFieldOfView ==
    /\ call.fn = "TifsPerFieldOfView.__iter__"
    /\ result = NoCall
    /\ result' = [fn |-> call.fn,
                  yielded |-> names_per_field_of_view(call.positions, call.height, call.width)]
    /\ UNCHANGED <<call, call_frame>>

NameTifsPerConcentration ==
    /\ call.fn = "TifsPerConcentration.__iter__"
    /\ result = NoCall
    /\ result' = [fn |-> call.fn,
                  yielded |-> names_per_concentration(call.files, call.positions, call.height, call.width)]
    /\ UNCHANGED <<call, call_frame>>

\* an acquisition of H x W images, H and W multiples of 512: one file per
\* position, or up to MaxFiles files that hold every position
NamesInit ==
    /\ CallInit
    /\ \E positions \in PositionLists, r, c \in 1..MaxSubdivisions :
          \/ call = [fn |-> "TifsPerFieldOfView.__iter__", files |-> Len(positions),
                     positions |-> positions, height |-> r * FieldSide, width |-> c * FieldSide]
          \/ \E files \in 1..MaxFiles :
                call = [fn |-> "TifsPerConcentration.__iter__", files |-> files,
                        positions |-> positions, height |-> r * FieldSide, width |-> c * FieldSide]

NamesNext ==
    \/ NameTifsPerFieldOfView
    \/ NameTifsPerConcentration

NamesSpec == NamesInit /\ [][NamesNext]_vars


\* ====================================================================
\* Properties of one run of align_fiducial (Spec, FairSpec)
\* ====================================================================
Returned == producer_pc = "returned"
SomeTaskRaised == \E t \in Tasks : outcome[t] = "raised"

\* C1: a worker thread leaves its loop only when the done flag is set and the
\* input queue is empty: no thread has quit while a task is in the queue or is
\* still to be put on it.
C1_QuitOnlyWhenQueueDrained ==
    \A w \in Workers :
        thread_pc[w] = "quit" => (done_event /\ q = <<>> /\ next_task > NumTasks)

\* C2: when no task raises an uncaught exception, under fair scheduling
\* align_fiducial eventually returns.
C2_ReturnsWhenNoTaskRaises == <>(Returned \/ SomeTaskRaised)

\* C3: worker crash isolation: after a task has raised an exception the thread
\* does not expect, align_fiducial still returns eventually.
C3_ReturnsAfterTaskRaised == SomeTaskRaised ~> Returned

\* C4: once processing_done_event is set and the result queue is empty, the
\* writer thread eventually exits.
C4_WriterExits ==
    (processing_done_event /\ result_queue = <<>>) ~> (writer_pc = "exited")

\* C5: whenever align_fiducial has returned, task_done was called for every
\* task, write_output was called exactly once for every result a thread
\* enqueued (and for no other task), and the result queue is empty.
C5_AllDoneAndWrittenAtReturn ==
    Returned =>
        /\ \A t \in Tasks : task_done_calls[t] = 1
        /\ \A t \in Tasks : write_calls[t] = (IF outcome[t] = "aligned" THEN 1 ELSE 0)
        /\ result_queue = <<>>

\* C5 witness: a run returned in which one task was aligned and written and
\* another was skipped
C5_Witness ==
    /\ Returned
    /\ \E t \in Tasks : outcome[t] = "aligned" /\ write_calls[t] = 1
    /\ \E t \in Tasks : outcome[t] = "skipped"

\* ====================================================================
\* Properties of write_output (WriteSpec); last_write is the call just made
\* ====================================================================
FilesNow == disk[last_write.image_index]
StoredBefore == last_write.before.stats

\* C6: write_output never overwrites a stats file whose stored score exceeds
\* the candidate's: with stored score s > candidate score c, both files are
\* unchanged and the call returns False.
C6_HigherStoredScoreKept ==
    (/\ last_write.called
     /\ StoredBefore.kind = "stats"
     /\ StoredBefore.score > last_write.new_stats.score)
    => (FilesNow = last_write.before /\ ~last_write.returned)

\* C6 witness: a call whose candidate scored below the stored score
C6_Witness ==
    /\ last_write.called
    /\ StoredBefore.kind = "stats"
    /\ StoredBefore.score > last_write.new_stats.score
    /\ StoredBefore.pose # last_write.new_stats.pose

\* C7: with a stats file of stored score s and a candidate of score c > s,
\* write_output replaces the stats file by the candidate's serialized stats.
C7_BetterCandidateReplaces ==
    (/\ last_write.called
     /\ StoredBefore.kind = "stats"
     /\ last_write.new_stats.score > StoredBefore.score)
    => FilesNow.stats = serialized(last_write.new_stats)

C9_CorruptOrMissingIsScoreZero ==
    (last_write.called /\ StoredBefore.kind \in {"corrupt", "missing"})
    => /\ load_existing_score(StoredBefore) = 0
       /\ last_write.returned
       /\ FilesNow.stats = serialized(last_write.new_stats)
       /\ FilesNow.rcs = read_names_rcs(last_write.new_stats)

\* C9 witness: a call found an unparseable stats file
C9_Witness ==
    /\ last_write.called
    /\ StoredBefore.kind = "corrupt"
    /\ last_write.returned

\* C10: once a stats file with a positive score exists for an image, a later
\* write_output call for that image (the pass run again: the files seed a new
\* precision alignment, whose pose and score need not be the stored ones)
\* leaves the stats file and the all_read_rcs file unchanged.
C10_RerunLeavesFilesUnchanged ==
    (/\ last_write.called
     /\ StoredBefore.kind = "stats"
     /\ StoredBefore.score > 0)
    => FilesNow = last_write.before

\* C10 witness: process_data_image called write_output over a stats file with a
\* positive score, with an alignment of the same score and another pose
C10_Witness ==
    /\ last_write.called
    /\ last_write.caller = "process_data_image"
    /\ StoredBefore.kind = "stats"
    /\ StoredBefore.score > 0
    /\ last_write.new_stats.score = StoredBefore.score
    /\ last_write.new_stats.pose # StoredBefore.pose

\* ====================================================================
\* Properties of the alignment steps (Spec)
\* ====================================================================
\* the images whose result is on the result queue or in the writer's hands
ResultsInFlight ==
    {result_queue[k].image_index : k \in 1..Len(result_queue)}
        \cup (IF writer_item = NoItem THEN {} ELSE {writer_item.image_index})

\* C11: an alignment is enqueued for the writer, or handed to write_output by
\* the second-channel pass, only after precision_align_only(min_hits) returned
\* without raising, and it then has at least min_hits hits.
C11_WrittenOnlyWithEnoughHits ==
    /\ \A w \in Workers :
          (thread_pc[w] = "task_done" /\ outcome[thread_task[w]] = "aligned")
              => (thread_fia[w].precision = "returned" /\ thread_fia[w].hits >= MinHits)
    /\ \A t \in Tasks :
          (t \in ResultsInFlight \/ write_calls[t] > 0) => outcome[t] = "aligned"
    /\ last_write.called
          => (last_write.fia.precision = "returned" /\ last_write.fia.hits >= MinHits)

\* both paths have written: the writer for an image of the first pass, and
\* process_data_image with exactly min_hits hits for the same image
C11_Witness ==
    /\ last_write.called
    /\ last_write.caller = "process_data_image"
    /\ last_write.fia.hits = MinHits
    /\ write_calls[last_write.image_index] = 1

\* the thread's task failed without an exception leaving the thread: the
\* catalog was absent, no tile hit, or precision_align_only raised ValueError
TaskFailed(w) ==
    /\ thread_pc[w] = "task_done"
    /\ \/ ~thread_fia[w].sexcat
       \/ ~thread_fia[w].hitting_tiles
       \/ thread_fia[w].precision = "ValueError"

\* C12: a task whose catalog is absent, whose rough alignment finds no hitting
\* tile, or whose precision alignment raises ValueError has no result enqueued
\* or written, is marked done on the input queue (its thread is at task_done
\* or has called it), and does not end its thread.
C12_FailedTaskSkipped ==
    /\ \A w \in Workers : TaskFailed(w) => outcome[thread_task[w]] = "skipped"
    /\ \A t \in Tasks :
          outcome[t] = "skipped"
              => /\ t \notin ResultsInFlight
                 /\ write_calls[t] = 0
                 /\ \/ task_done_calls[t] = 1
                    \/ \E w \in Workers : thread_task[w] = t /\ thread_pc[w] = "task_done"
    /\ \A w \in Workers :
          thread_pc[w] = "died" => outcome[thread_task[w]] = "raised"

\* the first task had no catalog, the second had too few hits, and the run
\* went on to its end
C12_Witness ==
    /\ Returned
    /\ outcome[1] = "skipped" /\ steps[1] = <<>>
    /\ outcome[2] = "skipped" /\ steps[2] = <<"rough_align", "precision_align_only">>
    /\ \A t \in Tasks : task_done_calls[t] = 1

\* C14: the input queue never holds more than W tasks, the producer's put is
\* blocked while it holds W, and a thread's put of a result is never blocked
\* (the result queue has no maxsize).
C14_InputQueueBounded ==
    /\ Len(q) <= NumWorkers
    /\ Len(q) = NumWorkers => ~ENABLED ProducerPut
    /\ \A w \in Workers : thread_pc[w] = "precision" => ENABLED ThreadPrecisionAlign(w)

\* the producer has a task to put and the queue is full
C14_Witness ==
    /\ producer_pc = "put"
    /\ next_task <= NumTasks
    /\ Len(q) = NumWorkers
    /\ ~ENABLED ProducerPut

\* the workers that hold a task they took from the input queue
WorkersHolding == {w \in Workers : thread_task[w] # 0}

\* C15 as stated: the tasks put and not yet finished (waiting in the input
\* queue or held by a worker) are never more than W.
C15_AtMostWInFlight ==
    q_unfinished <= NumWorkers

\* C15, amended: the tasks put and not yet finished are those waiting in the
\* input queue, at most W, and those held by the workers, at most one each:
\* never more than 2W.
C15_AtMostTwoWInFlight ==
    /\ q_unfinished = Len(q) + Cardinality(WorkersHolding)
    /\ Len(q) <= NumWorkers
    /\ q_unfinished <= 2 * NumWorkers

\* the queue is full and every worker holds a task
C15_Witness ==
    /\ Len(q) = NumWorkers
    /\ Cardinality(WorkersHolding) = NumWorkers
    /\ q_unfinished = 2 * NumWorkers

\* the steps recorded for a task are the first steps of StepOrder
InStepOrder(t) ==
    /\ Len(steps[t]) <= Len(StepOrder)
    /\ \A k \in 1..Len(steps[t]) : steps[t][k] = StepOrder[k]

\* C16: for each image, rough alignment is over before precision alignment
\* starts and precision alignment is over before write_output starts: the
\* steps taken for an image are rough_align, precision_align_only,
\* write_output in this order, each at most once, and write_output is called
\* only for an image whose precision alignment returned without raising.
C16_StepsStrictlyOrdered ==
    /\ \A t \in Tasks : InStepOrder(t)
    /\ \A w \in Workers :
          thread_pc[w] = "precision" => steps[thread_task[w]] = <<"rough_align">>
    /\ writer_pc = "write_output"
          => /\ steps[writer_item.image_index] = <<"rough_align", "precision_align_only">>
             /\ outcome[writer_item.image_index] = "aligned"
    /\ \A t \in Tasks :
          write_calls[t] > 0 => (steps[t] = StepOrder /\ outcome[t] = "aligned")

\* an image has gone through all three steps while another was skipped after
\* rough alignment
C16_Witness ==
    \E t, u \in Tasks :
        /\ steps[t] = StepOrder
        /\ write_calls[t] = 1
        /\ steps[u] = <<"rough_align">>
        /\ outcome[u] = "skipped"

C13_MissingImageSkippedWithoutError ==
    last_write.raised # "AttributeError"

\* ====================================================================
\* Properties of one call of find_bounds (BoundsSpec)
\* ====================================================================
\* the acquisitions that have an entry in end_tiles
Bounded == {a \in Acquisitions : end_tiles[a] # NoBound}

\* C18: find_bounds probes the columns in the order given (ascending for the
\* left side, descending for the right) and stops at the first column at
\* which an acquisition aligned: no column is probed after a column with a
\* hit, the mapping it returns is not empty, and every bound in it carries the
\* column probed last.
C18_StopsAtFirstAlignedColumn ==
    /\ Len(probed) <= NumColumns
    /\ \A k \in 1..Len(probed) : probed[k] = ColumnOrder(side)[k]
    /\ \A c \in hit_columns : c = probed[Len(probed)]
    /\ \A a \in Bounded : end_tiles[a].column = probed[Len(probed)]
    /\ find_pc = "returned" => (Bounded # {} /\ hit_columns = {probed[Len(probed)]})

\* the right side: nothing aligned at the last column, find_bounds returned
\* at the column before it with a bound for one acquisition only
C18_Witness ==
    /\ find_pc = "returned"
    /\ side = "right"
    /\ probed = <<NumColumns - 1, NumColumns - 2>>
    /\ \E a, b \in Acquisitions :
          /\ end_tiles[a].column = NumColumns - 2
          /\ end_tiles[b] = NoBound

\* C19: when every column has been probed and no acquisition aligned at any,
\* find_bounds fails (error.fail); it never returns an empty mapping.
C19_FailsWhenNothingAligns ==
    /\ find_pc = "returned" => Bounded # {}
    /\ find_pc = "failed" => (Len(probed) = NumColumns /\ Bounded = {} /\ hit_columns = {})
    /\ (find_pc = "for_column" /\ column_pos > NumColumns)
          => (Bounded = {} /\ ENABLED FindBoundsFail /\ ~ENABLED FindBoundsMapAsync)

\* every column was probed, nothing aligned, find_bounds has failed
C19_Witness ==
    /\ find_pc = "failed"
    /\ Len(probed) = NumColumns
    /\ Bounded = {}

\* C20: for one acquisition and one column the rows are tried in the order
\* 3, 4, 2 up to the first row that hits, where the bound is recorded; a row
\* whose image is missing counts as no hit, so a task that has returned
\* without a bound has tried all three rows.
C20_RowsTriedInOrder ==
    \A a \in Acquisitions :
        /\ Len(rows_tried[a]) <= Len(RowOrder)
        /\ \A k \in 1..Len(rows_tried[a]) : rows_tried[a][k] = RowOrder[k]
        /\ checker_pc[a] = "hit" => end_tiles[a].column = probed[Len(probed)]
        /\ checker_pc[a] \in {"no_hit", "missing_image"}
              => (end_tiles[a] = NoBound /\ rows_tried[a] = RowOrder)

\* ====================================================================
\* Properties of get_end_tiles after find_bounds (EndTilesSpec)

\* x is in the list s at least as often as every other element of s
MostFrequent(s, x) ==
    /\ \E i \in DOMAIN s : s[i] = x
    /\ \A j \in DOMAIN s :
          Cardinality({i \in DOMAIN s : s[i] = x}) >= Cardinality({i \in DOMAIN s : s[i] = s[j]})

\* the tile keys, then the columns, that the acquisitions with a bound reported
ReportedTiles(bounds) == all_tiles(bounds, NumAcquisitions)
ReportedColumns(bounds) == columns(bounds, NumAcquisitions)

\* the entry of acquisition a was built from its own bound where it has one and
\* from the side's default where it has none
UsesOwnOrDefault(bounds, default, tiles, a) ==
    IF bounds[a] # NoBound
    THEN tiles = bounds[a].tiles
    ELSE tiles = <<default.tile>>

ColumnOwnOrDefault(bounds, default, a) ==
    IF bounds[a] # NoBound THEN bounds[a].column ELSE default.column

\* C21: in build_end_tiles an acquisition with a bound of its own uses its own
\* tiles and column; one without receives the most frequent tile key and the
\* most frequent column among the acquisitions that reported, for the left
\* and the right side independently.
C21_OwnBoundOrMostFrequent ==
    result # NoCall /\ result.fn = "get_end_tiles" =>
        /\ MostFrequent(ReportedTiles(call.left_end_tiles), result.default_left.tile)
        /\ MostFrequent(ReportedColumns(call.left_end_tiles), result.default_left.column)
        /\ MostFrequent(ReportedTiles(call.right_end_tiles), result.default_right.tile)
        /\ MostFrequent(ReportedColumns(call.right_end_tiles), result.default_right.column)
        /\ \A a \in Acquisitions :
              LET entry == result.end_tiles[a]
                  left_column == ColumnOwnOrDefault(call.left_end_tiles, result.default_left, a)
                  right_column == ColumnOwnOrDefault(call.right_end_tiles, result.default_right, a)
              IN  /\ UsesOwnOrDefault(call.left_end_tiles, result.default_left,
                                      entry.tile_map.left_tiles, a)
                  /\ UsesOwnOrDefault(call.right_end_tiles, result.default_right,
                                      entry.tile_map.right_tiles, a)
                  /\ entry.min_column = Min(left_column, right_column)
                  /\ entry.max_column = Max(left_column, right_column)

\* two acquisitions reported "tileA" and one of them "tileB" too on the left,
\* the third reported nothing there and received "tileA"; on the right it has
\* a bound of its own and the other two have none
C21_Witness ==
    /\ result # NoCall
    /\ result.fn = "get_end_tiles"
    /\ call.left_end_tiles[1].tiles = <<"tileA", "tileB">>
    /\ call.left_end_tiles[2].tiles = <<"tileA">>
    /\ call.left_end_tiles[3] = NoBound
    /\ call.right_end_tiles[1] = NoBound
    /\ call.right_end_tiles[2] = NoBound
    /\ call.right_end_tiles[3].tiles = <<"tileB">>
    /\ result.end_tiles[3].tile_map.left_tiles = <<"tileA">>
    /\ result.end_tiles[3].tile_map.right_tiles = <<"tileB">>
    /\ result.end_tiles[1].tile_map.right_tiles = <<"tileB">>

\* ====================================================================
\* Properties of get_expected_tile_map (TileMapSpec)

TileMapReturned == result # NoCall /\ result.fn = "get_expected_tile_map"

\* the call was made with one left end tile and one right end tile, on
\* different tiles of lane 1
SingleEndTiles ==
    /\ Len(call.left_tiles) = 1
    /\ Len(call.right_tiles) = 1
    /\ call.left_tiles[1].number # call.right_tiles[1].number

\* the neighbour of tile `from` on the way to tile `to`
TowardsMiddle(from, to) ==
    IF from.number < to.number THEN TileKey(from.lane, from.number + 1)
    ELSE TileKey(from.lane, from.number - 1)

Contains(s, x) == \E i \in DOMAIN s : s[i] = x

\* C22: for every left end tile, right end tile and column range
\* min_col < max_col (min_col > 0 included) the left-bound column maps to a
\* list with the left end tile and its neighbour towards the middle, and the
\* right-bound column to a list with the right end tile and its neighbour
\* towards the middle.
C22_BoundColumnsHoldEndTiles ==
    (TileMapReturned /\ SingleEndTiles) =>
        LET left == call.left_tiles[1]
            right == call.right_tiles[1]
        IN  /\ Contains(result.tile_map[call.min_column], left)
            /\ Contains(result.tile_map[call.min_column], TowardsMiddle(left, right))
            /\ Contains(result.tile_map[call.max_column], right)
            /\ Contains(result.tile_map[call.max_column], TowardsMiddle(right, left))

\* the same for column ranges that start at column 0 only
C22_BoundColumnsFromColumnZero ==
    (TileMapReturned /\ SingleEndTiles /\ call.min_column = 0) =>
        LET left == call.left_tiles[1]
            right == call.right_tiles[1]
        IN  /\ Contains(result.tile_map[call.min_column], left)
            /\ Contains(result.tile_map[call.min_column], TowardsMiddle(left, right))
            /\ Contains(result.tile_map[call.max_column], right)
            /\ Contains(result.tile_map[call.max_column], TowardsMiddle(right, left))

\* C23: every interior column (min_col < column < max_col) of the tile map
\* holds exactly three tile keys: a tile and both of its neighbours.
C23_InteriorColumnsHaveThreeKeys ==
    TileMapReturned =>
        \A column \in Columns :
            (call.min_column < column /\ column < call.max_column) =>
                /\ Len(result.tile_map[column]) = 3
                /\ \E n \in TileNumbers :
                      {result.tile_map[column][i] : i \in 1..3}
                          = {TileKey(1, n - 1), TileKey(1, n), TileKey(1, n + 1)}

\* ====================================================================
\* Properties of load_read_names (ReadNamesSpec)

ReadNamesLoaded == result # NoCall /\ result.fn = "load_read_names"

\* the read names the mapping holds under some key
GroupedNames == UNION {result.tiles[key] : key \in DOMAIN result.tiles}

\* the k-th field from the end of a read name
FromLast(name, k) == name[Len(name) - k + 1]

\* C24: every line that is accepted is grouped under lane{L}tile{T} with L the
\* 4th-from-last and T the 3rd-from-last of its ':'-separated fields; a line
\* with fewer than four fields is skipped and grouped under no key.
C24_KeyFromFourthAndThirdFromLast ==
    ReadNamesLoaded =>
        /\ \A key \in DOMAIN result.tiles : \A name \in result.tiles[key] :
              /\ Len(name) >= 4
              /\ key = <<"lane", FromLast(name, 4), "tile", FromLast(name, 3)>>
        /\ \A i \in DOMAIN call.lines :
              Len(call.lines[i].fields) < 4 => call.lines[i].fields \notin GroupedNames

\* the part of C24 that is about lines of five fields and more
C24_KeyOfLongLines ==
    ReadNamesLoaded =>
        \A key \in DOMAIN result.tiles : \A name \in result.tiles[key] :
            Len(name) >= 5 => key = <<"lane", FromLast(name, 4), "tile", FromLast(name, 3)>>

\* a file made of read names, one per line
FileOf(names) ==
    IF names = {} THEN <<>>
    ELSE CHOOSE f \in [1..Cardinality(names) -> [fields : names, eol : {"\n"}]] :
            {f[i].fields : i \in DOMAIN f} = names

\* each read name that was grouped is under one key only, and loading the
\* grouped names again gives the same mapping
GroupedOnceAndIdempotent ==
    /\ \A k1, k2 \in DOMAIN result.tiles :
          k1 # k2 => result.tiles[k1] \cap result.tiles[k2] = {}
    /\ \A i \in DOMAIN call.lines :
          Len(call.lines[i].fields) >= 4 => call.lines[i].fields \in GroupedNames
    /\ load_read_names("read_names.txt", FileOf(GroupedNames)) = result.tiles
    /\ call.file_path = "" => result.tiles = <<>>

\* C25: each distinct valid read name is in the output once and under one
\* tile key, invalid lines (those without a 4th-from-last field) are under no
\* key, loading a file made of the output's read names gives the same mapping,
\* and an empty path gives an empty mapping.
C25_GroupsCollapsesIdempotent ==
    ReadNamesLoaded =>
        /\ GroupedOnceAndIdempotent
        /\ \A i \in DOMAIN call.lines :
              Len(call.lines[i].fields) < 4 => call.lines[i].fields \notin GroupedNames

\* C25 without its sentence about invalid lines
C25_ValidNamesOnly ==
    ReadNamesLoaded => GroupedOnceAndIdempotent

\* ====================================================================
\* Properties of next_power_of_2 (PowerSpec) and of set_fft (FftSpec)

RECURSIVE IsPowerOfTwo(_)
\* p is 1, or p is even and half of it is a power of two
IsPowerOfTwo(p) == p = 1 \/ (p > 1 /\ p % 2 = 0 /\ IsPowerOfTwo(p \div 2))

NextPowerReturned == result # NoCall /\ result.fn = "next_power_of_2"

\* C26: for every integer n >= 1, next_power_of_2(n) is the smallest power of
\* two that is >= n, and it is n when n is a power of two.
C26_SmallestPowerOfTwoAtLeastN ==
    (NextPowerReturned /\ call.x.den = 1) =>
        LET n == call.x.num
        IN  /\ IsPowerOfTwo(result.value)
            /\ result.value >= n
            /\ \A p \in n..result.value : IsPowerOfTwo(p) => p = result.value
            /\ IsPowerOfTwo(n) => result.value = n

\* next_power_of_2(4) has returned 4
C26_Witness ==
    /\ NextPowerReturned
    /\ call.x = Whole(4)
    /\ result.value = 4

FftSet == result # NoCall /\ result.fn = "set_fft"

\* C27: for every image shape (H, W) and padding (pad_r, pad_c) >= 0 the canvas
\* set_fft transforms is next_power_of_2(pad_r + H) by next_power_of_2(pad_c + W),
\* both powers of two, with the image behind pad_r rows and pad_c columns of zeros.
C27_CanvasIsPowerOfTwo ==
    FftSet =>
        LET canvas == result.fft2_of
            H == Len(call.image)
            W == Len(call.image[1])
            pad_r == call.padding[1]
            pad_c == call.padding[2]
        IN  /\ result.raised = "none"
            /\ Len(canvas) = next_power_of_2(Whole(pad_r + H))
            /\ IsPowerOfTwo(Len(canvas))
            /\ \A r \in 1..Len(canvas) :
                  /\ Len(canvas[r]) = next_power_of_2(Whole(pad_c + W))
                  /\ IsPowerOfTwo(Len(canvas[r]))
                  /\ \A c \in 1..Len(canvas[r]) :
                        canvas[r][c] =
                            IF r - pad_r \in 1..H /\ c - pad_c \in 1..W
                            THEN call.image[r - pad_r][c - pad_c]
                            ELSE 0

\* an image of 3 rows and 2 columns, padded by (2, 1), is on a canvas of 8 by 4
\* with its first pixel in row 3, column 2
C27_Witness ==
    /\ FftSet
    /\ Shape(call.image) = <<3, 2>>
    /\ call.padding = <<2, 1>>
    /\ Shape(result.fft2_of) = <<8, 4>>
    /\ result.fft2_of[3][2] = call.image[1][1]
    /\ result.fft2_of[2][2] = 0

\* ====================================================================
\* Properties of run_data_channel (DataChannelSpec)

DataChannelEnded == result # NoCall /\ result.fn = "run_data_channel"

\* a stats file of the alignment channel
StatsFileOfChannel(filename, channel) ==
    filename.ending = "_stats.txt" /\ filename.channel = channel

\* its name has a row and a column that are numbers
ValidlyNamed(filename) == filename.row # "x" /\ filename.column # "x"

\* the number of process_data_image calls made for a file
CallsFor(filename) ==
    Cardinality({i \in DOMAIN result.process_data_image_calls :
                    result.process_data_image_calls[i].filename = filename})

\* C28: run_data_channel processes every validly named stats file of the
\* alignment channel exactly once, with the image of the requested channel and
\* precision alignment only (rough_align is never called); a stats file whose
\* name does not match the pattern is skipped with a warning.
C28_EveryStatsFileProcessedOnce ==
    DataChannelEnded =>
        /\ \A filename \in call.listdir :
              StatsFileOfChannel(filename, call.alignment_channel) =>
                  IF ValidlyNamed(filename)
                  THEN /\ CallsFor(filename) = 1
                       /\ \A i \in DOMAIN result.process_data_image_calls :
                             result.process_data_image_calls[i].filename = filename
                                => result.process_data_image_calls[i].channel = call.channel_name
                  ELSE CallsFor(filename) = 0 /\ filename \in result.warned
        /\ result.rough_align_calls = 0

\* ====================================================================
\* Properties of the TIFF stack iterators (TiffSpec)

StackIterated ==
    result # NoCall /\ result.fn \in {"TifsPerFieldOfView.__iter__", "TifsPerConcentration.__iter__"}

\* the files some yielded field of view is from
FilesYielded ==
    {result.iterated.yielded[i].file : i \in DOMAIN result.iterated.yielded}

\* C30: both iterators reject an image whose height or width is not a multiple
\* of 512 with an error before they yield any field of view from that file;
\* every field they yield is a 512 x 512 sub-image.
C30_RejectsSidesNotMultipleOf512 ==
    StackIterated =>
        /\ \A file \in DOMAIN call.tifs :
              (call.tifs[file].height % 512 # 0 \/ call.tifs[file].width % 512 # 0) =>
                  /\ file \notin FilesYielded
                  /\ result.iterated.raised = "ValueError"
        /\ \A i \in DOMAIN result.iterated.yielded :
              result.iterated.yielded[i].shape = <<512, 512>>

\* the same for TifsPerConcentration alone
C30_PerConcentrationRejects ==
    (StackIterated /\ result.fn = "TifsPerConcentration.__iter__") =>
        /\ \A file \in DOMAIN call.tifs :
              (call.tifs[file].height % 512 # 0 \/ call.tifs[file].width % 512 # 0) =>
                  /\ file \notin FilesYielded
                  /\ result.iterated.raised = "ValueError"
        /\ \A i \in DOMAIN result.iterated.yielded :
              result.iterated.yielded[i].shape = <<512, 512>>


\* ====================================================================
\* Properties of the tile data (Spec, WriteSpec)

\* C29: no worker modifies the shared tile store: every task aligns on a deep
\* copy of its own, so the tile data given to align_fiducial (and the aligner
\* given to process_data_image) stay as they were, and no object holds the
\* alignment state of two tasks.
C29_SharedTilesUnchanged ==
    /\ tile_store[FastqTiles] = {}
    /\ tile_store[SharedAligner] = {}
    /\ \A w \in Workers : tile_store[LocalFastqTiles(w)] = {}
    /\ \A object \in TileObjects : Cardinality(tile_store[object]) <= 1

\* two tasks have been aligned, each on tiles of its own
C29_Witness ==
    /\ tile_store[TaskTiles(1)] = {<<"fia", 1>>}
    /\ tile_store[TaskTiles(2)] = {<<"fia", 2>>}
    /\ outcome[1] = "aligned"
    /\ outcome[2] = "aligned"
    /\ tile_store[FastqTiles] = {}



\* ====================================================================
\* The threads of align_fiducial and the pool of run_data_channel (StartSpec)
\* ====================================================================
AlignFiducialStarted ==
    /\ result # NoCall
    /\ result.fn = "align_fiducial"
    /\ result.write_threads = 1

\* C31: align_fiducial starts exactly W = max(cores - 3, 1) alignment threads
\* and exactly one writer thread, the input queue's capacity is W, and
\* run_data_channel makes its process pool with max(cores - 2, 1) processes.
C31_ThreadsAndPoolSized ==
    /\ AlignFiducialStarted =>
          /\ result.alignment_threads = Max(call.cpu_count - 3, 1)
          /\ result.q_maxsize = result.alignment_threads
    /\ (result # NoCall /\ result.fn = "align_fiducial") =>
          /\ result.alignment_threads <= Max(call.cpu_count - 3, 1)
          /\ result.write_threads <= 1
    /\ (result # NoCall /\ result.fn = "run_data_channel") =>
          result.pools = <<Max(call.cpu_count - 2, 1)>>

\* the part of C31 that is about align_fiducial
C31_AlignFiducialThreads ==
    /\ AlignFiducialStarted =>
          /\ result.alignment_threads = Max(call.cpu_count - 3, 1)
          /\ result.q_maxsize = result.alignment_threads
    /\ (result # NoCall /\ result.fn = "align_fiducial") =>
          /\ result.alignment_threads <= Max(call.cpu_count - 3, 1)
          /\ result.write_threads <= 1



\* ====================================================================
\* The images iterate_all_images hands out (IterateSpec)
\* ====================================================================
AllImagesIterated == result # NoCall /\ result.fn = "iterate_all_images"

\* (row, column, acquisition_file, tile_map[column]) of an image
Payload(h5_filename, rc) == <<rc[1], rc[2], h5_filename, call.end_tiles[h5_filename][3][rc[2]]>>

\* the images of an acquisition that exist and lie in min_column..max_column
InClosedRange(h5_filename) ==
    {rc \in call.grid[h5_filename] :
        /\ call.end_tiles[h5_filename][1] <= rc[2]
        /\ rc[2] <= call.end_tiles[h5_filename][2]}

\* the payloads of the images that are to be dispatched
Expected ==
    {Payload(f, rc) : <<f, rc>> \in
        {p \in Range(call.h5_filenames) \X (GridRows \X GridColumns) : p[2] \in InClosedRange(p[1])}}

\* C32: iterate_all_images dispatches every existing image whose column lies
\* in the closed range min_column..max_column exactly once, with the payload
\* (row, column, acquisition_file, tile_map[column]), and dispatches no image
\* that is missing or outside that range.
C32_ClosedRangeDispatchedOnce ==
    AllImagesIterated =>
        /\ \A p \in Expected : Occurrences(result.yielded, p) = 1
        /\ Range(result.yielded) \subseteq Expected

\* the part of C32 that is about what is never dispatched, and about how often
C32_NothingElseAndNothingTwice ==
    AllImagesIterated =>
        /\ Range(result.yielded) \subseteq Expected
        /\ \A p \in Expected : Occurrences(result.yielded, p) <= 1
        /\ \A p \in Expected : p[2] < call.end_tiles[p[3]][2] => Occurrences(result.yielded, p) = 1



\* ====================================================================
\* The stages of the controller, run after run (ControllerSpec)
\* ====================================================================
\* the calls the controller made in its present run, in order
ThisRun == SelectSeq(controller.log, LAMBDA e : e.run = controller.run)

\* the place of a call in the order of the stages
StageRank(event) ==
    CASE event = "os.unlink" -> 1
      [] event = "convert.main" -> 2
      [] event = "get_end_tiles" -> 3
      [] event = "align.run" -> 4
      [] event = "run_data_channel" -> 5

\* a call of the present run that returned
ReturnedInThisRun(event, arg) ==
    \E i \in DOMAIN ThisRun :
        /\ ThisRun[i].event = event
        /\ ThisRun[i].arg = arg
        /\ ThisRun[i].outcome = "returned"

\* completion is recorded only after the stage returned, a change of the
\* metadata is in the file at once, and the calls are made in stage order
RecordedOnlyAfterStage ==
    controller.run > 0 =>
        /\ metadata_file = controller.metadata
        /\ controller.metadata.end_tiles # controller.loaded.end_tiles =>
              ReturnedInThisRun("get_end_tiles", controller.metadata.end_tiles)
        /\ (controller.metadata.phix_aligned /\ ~controller.loaded.phix_aligned) =>
              ReturnedInThisRun("align.run", "")
        /\ \A channel_name \in ChannelNames :
              (/\ Contains(controller.metadata.protein_channels_aligned, channel_combo(channel_name))
               /\ ~Contains(controller.loaded.protein_channels_aligned, channel_combo(channel_name)))
              => ReturnedInThisRun("run_data_channel", channel_name)
        /\ \A i, j \in DOMAIN ThisRun :
              i < j => StageRank(ThisRun[i].event) <= StageRank(ThisRun[j].event)

\* the run is over and neither an interruption nor error.fail (no HDF5 file,
\* no end tile found) has stopped it
RunWentThrough ==
    /\ controller.run > 0
    /\ controller.pc = "not_running"
    /\ controller.raised \notin {"interrupted", "error.fail"}

\* every stage is done and on record
AllStagesRecorded ==
    /\ controller.metadata.preprocessed
    /\ controller.metadata.end_tiles # NoEndTiles
    /\ controller.metadata.phix_aligned
    /\ \A channel_name \in ChannelNames :
          Contains(controller.protein_channels, channel_name) =>
              Contains(controller.metadata.protein_channels_aligned, channel_combo(channel_name))

C33_NothingRecordedEarly == RecordedOnlyAfterStage



\* a call of the present run, whatever its end
CalledInThisRun(event, arg) ==
    \E i \in DOMAIN ThisRun : ThisRun[i].event = event /\ ThisRun[i].arg = arg

\* the calls of all runs that returned
ReturnedCalls(event) ==
    {i \in DOMAIN controller.log :
        controller.log[i].event = event /\ controller.log[i].outcome = "returned"}

\* C34: a run of the controller never repeats a stage the metadata have on
\* record. With end_tiles in the metadata get_end_tiles is not called and the
\* stored value is taken; with phix_aligned True the first-channel alignment
\* is not called; run_data_channel is not called for a channel that is in
\* protein_channels_aligned, and that list never holds a channel twice;
\* without the preprocessed flag every .h5 file there is has been deleted
\* when the conversion starts.
C34_CompletedStageNotRepeated ==
    controller.run > 0 =>
        /\ controller.loaded.end_tiles # NoEndTiles =>
              /\ \A found \in EndTilesValues \cup {""} : ~CalledInThisRun("get_end_tiles", found)
              /\ controller.end_tiles \in {"unbound", controller.loaded.end_tiles}
        /\ controller.loaded.phix_aligned => ~CalledInThisRun("align.run", "")
        /\ \A channel_name \in ChannelNames :
              Contains(controller.loaded.protein_channels_aligned, channel_combo(channel_name))
              => ~CalledInThisRun("run_data_channel", channel_name)
        /\ NoDuplicates(controller.metadata.protein_channels_aligned)
        /\ NoDuplicates(metadata_file.protein_channels_aligned)
        /\ ~controller.loaded.preprocessed =>
              \A i \in DOMAIN ThisRun :
                  ThisRun[i].event = "convert.main" =>
                      /\ ThisRun[i].files = {}
                      /\ \E j \in 1..(i - 1) :
                            /\ ThisRun[j].event = "os.unlink"
                            /\ ThisRun[j].files = controller.h5_at_start
        /\ controller.loaded.preprocessed => ~CalledInThisRun("convert.main", "")
        /\ Cardinality(ReturnedCalls("get_end_tiles")) <= 1
        /\ Cardinality(ReturnedCalls("convert.main")) <= 1

\* a second run: the first one deleted an HDF5 file that was there, converted
\* and found the end tiles; the second one has taken the end tiles from the
\* metadata
C34_Witness ==
    /\ controller.run = 2
    /\ controller.loaded.preprocessed
    /\ controller.loaded.end_tiles # NoEndTiles
    /\ controller.end_tiles = controller.loaded.end_tiles
    /\ \E i, j, k \in DOMAIN controller.log :
          /\ i < j /\ j < k
          /\ controller.log[i].run = 1 /\ controller.log[k].run = 1
          /\ controller.log[i].event = "os.unlink" /\ controller.log[i].files # {}
          /\ controller.log[j].event = "convert.main" /\ controller.log[j].outcome = "returned"
          /\ controller.log[k].event = "get_end_tiles"
          /\ controller.log[k].arg = controller.end_tiles



\* ====================================================================
\* The tasks and the results of a run with one or two threads (Spec)
\* ====================================================================
\* the threads that hold task t
Holders(t) == {w \in Workers : thread_task[w] = t}

\* the results put on the result queue for task t: those waiting there, the
\* one the writer has taken and not yet handed to write_output, and those
\* write_output was called for
ResultsPut(t) ==
    Cardinality({k \in DOMAIN result_queue : result_queue[k].image_index = t})
        + (IF writer_pc = "write_output" /\ writer_item.image_index = t THEN 1 ELSE 0)
        + write_calls[t]

\* C35: no task is processed twice. A task that was put on the input queue is
\* waiting there once, or is held by one thread, or was marked done once,
\* and never two of these; a task not yet put is nowhere; at most one result
\* per task is put on the result queue, and only for a task that was aligned.
C35_NoTaskProcessedTwice ==
    \A t \in Tasks :
        /\ Occurrences(q, t) + Cardinality(Holders(t)) + task_done_calls[t]
              = (IF t < next_task THEN 1 ELSE 0)
        /\ task_done_calls[t] <= 1
        /\ ResultsPut(t) <= 1
        /\ ResultsPut(t) = 1 => outcome[t] = "aligned"

\* two threads work at the same time, each on a task of its own: one has put
\* its result and is about to mark its task done, the other is aligning
C35_Witness ==
    /\ NumWorkers = 2
    /\ \E w, v \in Workers :
          /\ w # v
          /\ thread_task[w] # 0 /\ thread_task[v] # 0
          /\ thread_task[w] # thread_task[v]
          /\ thread_pc[w] = "task_done" /\ ResultsPut(thread_task[w]) = 1
          /\ thread_pc[v] = "precision"



\* q.join() has returned
QueueJoined == producer_pc \in {"set_processing_done", "join_result_queue", "returned"}

\* C36: a thread puts the result of a task on the result queue before it
\* marks the task done. So when q.join() has returned, and from then on with
\* processing_done_event set, every task has its outcome, the result of every
\* aligned task is in the result queue, with the writer, or written, no
\* thread is at work on a task, and no result can be put any more.
C36_ResultsPutBeforeJoinReturns ==
    /\ \A w \in Workers :
          (thread_pc[w] = "task_done" /\ outcome[thread_task[w]] = "aligned")
              => ResultsPut(thread_task[w]) = 1
    /\ \A t \in Tasks :
          (task_done_calls[t] = 1 /\ outcome[t] = "aligned") => ResultsPut(t) = 1
    /\ processing_done_event => QueueJoined
    /\ QueueJoined =>
          /\ q = <<>> /\ next_task > NumTasks
          /\ \A t \in Tasks :
                /\ outcome[t] \in {"aligned", "skipped"}
                /\ task_done_calls[t] = 1
                /\ ResultsPut(t) = (IF outcome[t] = "aligned" THEN 1 ELSE 0)
          /\ \A w \in Workers :
                /\ thread_pc[w] \in {"not_started", "get_nowait", "empty", "quit"}
                /\ ~ENABLED ThreadPrecisionAlign(w)

\* processing_done_event is set after two threads worked: one result is
\* written, another still waits in the result queue
C36_Witness ==
    /\ processing_done_event
    /\ NumWorkers = 2
    /\ result_queue # <<>>
    /\ \E t \in Tasks : write_calls[t] = 1



\* ====================================================================
\* The entries of build_end_tiles (EndTilesSpec)
\* ====================================================================
EndTilesBuilt == result # NoCall /\ result.fn = "get_end_tiles"

\* C37: build_end_tiles returns an entry (min_column, max_column, tile_map)
\* for every acquisition file; min_column is the smaller and max_column the
\* larger of the acquisition's left and right bound columns, whichever of the
\* two is larger, so min_column <= max_column; and the tile map was requested
\* with exactly that min_column and max_column.
C37_EntryPerFileWithOrderedColumns ==
    EndTilesBuilt =>
        /\ DOMAIN result.end_tiles = Acquisitions
        /\ \A a \in Acquisitions :
              LET entry == result.end_tiles[a]
                  left_column == ColumnOwnOrDefault(call.left_end_tiles, result.default_left, a)
                  right_column == ColumnOwnOrDefault(call.right_end_tiles, result.default_right, a)
              IN  /\ entry.min_column <= entry.max_column
                  /\ {entry.min_column, entry.max_column} = {left_column, right_column}
                  /\ entry.tile_map.min_column = entry.min_column
                  /\ entry.tile_map.max_column = entry.max_column

\* an acquisition whose left bound is at a larger column than its right bound
\* has an entry with the two columns in ascending order, and another
\* acquisition has its bounds the other way round
C37_Witness ==
    /\ EndTilesBuilt
    /\ \E a, b \in Acquisitions :
          /\ call.left_end_tiles[a] # NoBound /\ call.right_end_tiles[a] # NoBound
          /\ call.left_end_tiles[a].column > call.right_end_tiles[a].column
          /\ result.end_tiles[a].min_column = call.right_end_tiles[a].column
          /\ result.end_tiles[a].max_column = call.left_end_tiles[a].column
          /\ call.left_end_tiles[b] = NoBound
          /\ result.end_tiles[b].min_column < result.end_tiles[b].max_column



\* ====================================================================
\* The entries of the expected tile map (TileMapSpec)
\* ====================================================================
\* the numbers of the end tiles of both sides
EndTileNumbers == tile_numbers(call.left_tiles) \cup tile_numbers(call.right_tiles)

\* 1 to 3 distinct keys, of tiles between the lowest and the highest end tile
OneToThreeKeysInRange(keys) ==
    /\ Len(keys) \in 1..3
    /\ NoDuplicates(keys)
    /\ \A i \in DOMAIN keys :
          /\ SetMin(EndTileNumbers) <= tile_number(keys[i])
          /\ tile_number(keys[i]) <= SetMax(EndTileNumbers)

\* C38: for every pair of end tiles and every column range min_col < max_col,
\* with min_col = 0 or above, the expected tile map has an entry for each
\* column of min_col..max_col, each entry lists 1 to 3 distinct tile keys, and
\* every tile listed lies between the smaller and the larger end tile.
C38_EveryColumnOneToThreeKeysInRange ==
    TileMapReturned =>
        \A column \in call.min_column..call.max_column :
            OneToThreeKeysInRange(result.tile_map[column])

\* C38 for the column ranges that start at column 0
C38_RangesFromColumnZero ==
    (TileMapReturned /\ call.min_column = 0) =>
        \A column \in call.min_column..call.max_column :
            OneToThreeKeysInRange(result.tile_map[column])



\* ====================================================================
\* The fields of view of a stack and their dataset names (NamesSpec)
\* ====================================================================
FieldsNamed ==
    /\ result # NoCall
    /\ result.fn \in {"TifsPerFieldOfView.__iter__", "TifsPerConcentration.__iter__"}

\* the fields yielded for one position of one file
FieldsOf(file, position) ==
    {k \in DOMAIN result.yielded :
        result.yielded[k].file = file /\ result.yielded[k].position = position}

\* the (file, position) pairs of the stack: a file per position, or every
\* position in every file
StackPositions ==
    IF call.fn = "TifsPerFieldOfView.__iter__"
    THEN {<<i, i>> : i \in DOMAIN call.positions}
    ELSE (1..call.files) \X DOMAIN call.positions

\* two yielded fields that must not share a name: any two of a stack with a
\* file per position, two of the same file otherwise
SameDataset(j, k) ==
    call.fn = "TifsPerFieldOfView.__iter__" \/ result.yielded[j].file = result.yielded[k].file

\* C39: for an H x W acquisition, H and W multiples of 512, each stack
\* position yields exactly (H/512) * (W/512) fields of view, and the dataset
\* names '(Major, minor) = (a, b)' of the fields of distinct axis positions,
\* subrows and subcolumns are pairwise distinct, in TifsPerFieldOfView and in
\* TifsPerConcentration.
C39_FieldsPerPositionDistinctlyNamed ==
    FieldsNamed =>
        /\ \A p \in StackPositions :
              Cardinality(FieldsOf(p[1], p[2]))
                  = (call.height \div FieldSide) * (call.width \div FieldSide)
        /\ Len(result.yielded)
              = Cardinality(StackPositions) * (call.height \div FieldSide) * (call.width \div FieldSide)
        /\ \A j, k \in DOMAIN result.yielded :
              (j # k /\ SameDataset(j, k)) => result.yielded[j].name # result.yielded[k].name

\* two positions of 1024 x 1024 images, the second axis the major one: eight
\* fields, with eight names
C39_Witness ==
    /\ FieldsNamed
    /\ call.height = 2 * FieldSide /\ call.width = 2 * FieldSide
    /\ Len(call.positions) = 2
    /\ \E i \in DOMAIN call.positions : call.positions[i].second > call.positions[i].first
    /\ axes(call.positions)[1].major = call.positions[1].second
    /\ Cardinality({result.yielded[k].name : k \in FieldsOf(1, 1) \cup FieldsOf(call.files, 2)}) = 8

====
